---- MODULE Spec2Model ----
(***************************************************************************)
(* Model of the hierarchical geographic aggregation code of               *)
(* src/src/data_jobs/jobs/processing_geral.py and processing_geral_2.py.   *)
(*                                                                         *)
(* Text is modelled as a sequence of characters, each character a string  *)
(* of the alphabet below.  An accented letter is written as its base      *)
(* letter followed by an ASCII mark: "A~" is A with tilde, "a~" its lower *)
(* case, "C," is C with cedilla, "A'" A with acute accent, and so on.     *)
(* Python's None / NaN is the value Nulo.                                  *)
(***************************************************************************)
EXTENDS Integers, Sequences, FiniteSets, TLC

VARIABLES dados_selecao, op, ret, arq, base, localidade, cache_srv, cache_oci, entrada, chamadas

vars == <<dados_selecao, op, ret, arq, base, localidade, cache_srv, cache_oci, entrada, chamadas>>

-----------------------------------------------------------------------------
(* Characters and strings                                                  *)

Nulo == <<"None">>

\* An exception leaves the function.
EXCECAO == <<"excecao">>

Vazio == <<>>

Digitos == {"0", "1", "2", "3", "4", "5", "6", "7", "8", "9"}

Maiusculas ==
  <<"A", "B", "C", "D", "E", "F", "G", "H", "I", "J", "K", "L", "M",
    "N", "O", "P", "Q", "R", "S", "T", "U", "V", "W", "X", "Y", "Z">>

Minusculas ==
  <<"a", "b", "c", "d", "e", "f", "g", "h", "i", "j", "k", "l", "m",
    "n", "o", "p", "q", "r", "s", "t", "u", "v", "w", "x", "y", "z">>

LetrasMaiusculas == {Maiusculas[i] : i \in 1..Len(Maiusculas)}

\* The accented capitals of the substitution table, with the letter each becomes.
ACENTOS ==
  <<<<"A'", "A">>, <<"A!", "A">>, <<"A^", "A">>, <<"A~", "A">>, <<"A:", "A">>,
    <<"E'", "E">>, <<"E^", "E">>, <<"E:", "E">>,
    <<"I'", "I">>, <<"I^", "I">>, <<"I:", "I">>,
    <<"O'", "O">>, <<"O^", "O">>, <<"O~", "O">>, <<"O:", "O">>,
    <<"U'", "U">>, <<"U:", "U">>, <<"U^", "U">>,
    <<"C,", "C">>, <<"N~", "N">>>>

\* Lower-case accented letters and their capitals (str.upper).
ACENTOS_MINUSCULOS ==
  <<<<"a'", "A'">>, <<"a!", "A!">>, <<"a^", "A^">>, <<"a~", "A~">>, <<"a:", "A:">>,
    <<"e'", "E'">>, <<"e^", "E^">>, <<"e:", "E:">>,
    <<"i'", "I'">>, <<"i^", "I^">>, <<"i:", "I:">>,
    <<"o'", "O'">>, <<"o^", "O^">>, <<"o~", "O~">>, <<"o:", "O:">>,
    <<"u'", "U'">>, <<"u:", "U:">>, <<"u^", "U^">>,
    <<"c,", "C,">>, <<"n~", "N~">>>>

Min(S) == CHOOSE x \in S : \A y \in S : x <= y

Max(S) == CHOOSE x \in S : \A y \in S : x >= y

\* The elements of s at the positions P, in increasing order of position.
NasPosicoes(s, P) ==
  [k \in 1..Cardinality(P) |->
     s[CHOOSE i \in P : Cardinality({j \in P : j < i}) = k - 1]]

\* The values of a sequence, as a set.
valores(s) == {s[i] : i \in 1..Len(s)}

\* A look-up in a table of tuples: the field para of the entry whose field de
\* is c, padrao when there is none.
busca(tab, de, para, c, padrao) ==
  IF \E i \in DOMAIN tab : tab[i][de] = c
  THEN tab[CHOOSE i \in DOMAIN tab : tab[i][de] = c][para]
  ELSE padrao

\* The cased letters: each lower-case letter with its capital.
CAIXA == [i \in DOMAIN Minusculas |-> <<Minusculas[i], Maiusculas[i]>>] \o ACENTOS_MINUSCULOS

\* str.upper(), one character.
upper_char(c) == busca(CAIXA, 1, 2, c, c)

upper(s) == [i \in 1..Len(s) |-> upper_char(s[i])]

\* str.strip(): leading and trailing white space removed.
strip(s) ==
  LET P == {i \in 1..Len(s) : s[i] # " "}
  IN  IF P = {} THEN Vazio ELSE SubSeq(s, Min(P), Max(P))

\* The chain of .replace() calls of step 1: each accented capital becomes its letter.
sem_acento(c) == busca(ACENTOS, 1, 2, c, c)

\* Length of the match of ^\d{3,4}[\-\s] at the start of s, 0 when there is none.
\* The quantifier is greedy: four digits and a separator are tried first.
casa_codigo(s) ==
  IF /\ Len(s) >= 5
     /\ \A i \in 1..4 : s[i] \in Digitos
     /\ s[5] \in {"-", " "}
  THEN 5
  ELSE IF /\ Len(s) >= 4
          /\ \A i \in 1..3 : s[i] \in Digitos
          /\ s[4] \in {"-", " "}
  THEN 4
  ELSE 0

\* ' '.join(s.split()): runs of white space become one space, none at the ends.
colapsa(s) ==
  LET P == {i \in 1..Len(s) :
              \/ s[i] # " "
              \/ /\ i > 1
                 /\ s[i - 1] # " "
                 /\ \E j \in (i + 1)..Len(s) : s[j] # " "}
  IN  NasPosicoes(s, P)

\* The normalizer without steps 1 to 4.
padronizar_nome_geografico_so_caixa(nome) ==
  IF nome = Nulo THEN Vazio ELSE strip(upper(nome))

\* The steps of padronizar_nome_geografico after strip().upper(): the accents
\* replaced, the leading code cut, what is no capital, digit or space made a
\* space, the white space collapsed.
padronizar_nome_geografico(nome) ==
  LET sem_acentos(n0) == [i \in 1..Len(n0) |-> sem_acento(n0[i])]
      sem_codigo(n1, k) == IF k > 0 THEN SubSeq(n1, k + 1, Len(n1)) ELSE n1
      sem_pontuacao(n2) ==
        [i \in 1..Len(n2) |->
           IF n2[i] \in LetrasMaiusculas \cup Digitos \cup {" "} THEN n2[i] ELSE " "]
      apos_acentos(n1) == strip(colapsa(sem_pontuacao(sem_codigo(n1, casa_codigo(n1)))))
  IN  IF nome = Nulo THEN Vazio ELSE apos_acentos(sem_acentos(strip(upper(nome))))

-----------------------------------------------------------------------------
(* Display names                                                           *)

\* The character is a cased letter.
EhLetra(c) == \E par \in valores(CAIXA) : c = par[1] \/ c = par[2]

\* str.lower(), one character.
lower_char(c) == busca(CAIXA, 2, 1, c, c)

\* str.title(): a letter is a capital after a character that is no letter,
\* and lower case after a letter.
title(s) ==
  [i \in 1..Len(s) |->
     IF EhLetra(s[i])
     THEN IF i = 1 \/ ~EhLetra(s[i - 1]) THEN upper_char(s[i]) ELSE lower_char(s[i])
     ELSE s[i]]

\* sub in s, for two strings.
contem(s, sub) ==
  \E i \in 0..(Len(s) - Len(sub)) : SubSeq(s, i + 1, i + Len(sub)) = sub

isdigit(s) == s # Vazio /\ \A i \in 1..Len(s) : s[i] \in Digitos

RRAS == <<"R", "R", "A", "S">>

REGIAO_DE_SAUDE == <<"R", "E", "G", "I", "A", "O", " ", "D", "E", " ", "S", "A", "U", "D", "E">>

\* The name without a number at its end: nome.rsplit(' ', 1)[0] when the
\* name ends in a digit and what follows its last space is a number.
sem_numero_final(n1, espacos, aparado) ==
  IF /\ n1 # Vazio
     /\ aparado # Vazio
     /\ aparado[Len(aparado)] \in Digitos
     /\ espacos # {}
     /\ isdigit(SubSeq(n1, Max(espacos) + 1, Len(n1)))
  THEN SubSeq(n1, 1, Max(espacos) - 1)
  ELSE n1

\* nome.title() if nome else '-'
titulo_ou_traco(n2) == IF n2 # Vazio THEN title(n2) ELSE <<"-">>

\* get_descricao after the leading code is cut: n1 is the name, maiusculo
\* its upper case, and espacos the positions of its spaces
\* (nome.split(' ', 3) has a fourth part when there are three spaces).
descricao_sem_codigo(n1, maiusculo, espacos) ==
  IF /\ n1 # Vazio
     /\ (contem(maiusculo, RRAS) \/ contem(maiusculo, REGIAO_DE_SAUDE))
     /\ Cardinality(espacos) >= 3
  THEN title(SubSeq(n1, (CHOOSE i \in espacos : Cardinality({j \in espacos : j < i}) = 2) + 1,
                    Len(n1)))
  ELSE titulo_ou_traco(sem_numero_final(n1, espacos, strip(n1)))

\* The leading code cut: re.sub(r'^\d{3,4}[\-\s]', '', nome).strip() when it matches.
sem_codigo_inicial(nome, k) == IF k > 0 THEN strip(SubSeq(nome, k + 1, Len(nome))) ELSE nome

\* The positions of the spaces of a string.
posicoes_espaco(s) == {i \in 1..Len(s) : s[i] = " "}

descricao_de(n1) == descricao_sem_codigo(n1, upper(n1), posicoes_espaco(n1))

get_descricao(nome) == descricao_de(sem_codigo_inicial(nome, casa_codigo(nome)))

-----------------------------------------------------------------------------
(* Region membership table                                                 *)
UF_TO_REGIAO ==
  <<<<<<"A", "C", "R", "E">>,
      <<"N", "O", "R", "T", "E">>>>,
    <<<<"A", "M", "A", "P", "A">>,
      <<"N", "O", "R", "T", "E">>>>,
    <<<<"A", "M", "A", "Z", "O", "N", "A", "S">>,
      <<"N", "O", "R", "T", "E">>>>,
    <<<<"P", "A", "R", "A">>,
      <<"N", "O", "R", "T", "E">>>>,
    <<<<"R", "O", "N", "D", "O", "N", "I", "A">>,
      <<"N", "O", "R", "T", "E">>>>,
    <<<<"R", "O", "R", "A", "I", "M", "A">>,
      <<"N", "O", "R", "T", "E">>>>,
    <<<<"T", "O", "C", "A", "N", "T", "I", "N", "S">>,
      <<"N", "O", "R", "T", "E">>>>,
    <<<<"A", "L", "A", "G", "O", "A", "S">>,
      <<"N", "O", "R", "D", "E", "S", "T", "E">>>>,
    <<<<"B", "A", "H", "I", "A">>,
      <<"N", "O", "R", "D", "E", "S", "T", "E">>>>,
    <<<<"C", "E", "A", "R", "A">>,
      <<"N", "O", "R", "D", "E", "S", "T", "E">>>>,
    <<<<"M", "A", "R", "A", "N", "H", "A", "O">>,
      <<"N", "O", "R", "D", "E", "S", "T", "E">>>>,
    <<<<"P", "A", "R", "A", "I", "B", "A">>,
      <<"N", "O", "R", "D", "E", "S", "T", "E">>>>,
    <<<<"P", "E", "R", "N", "A", "M", "B", "U", "C", "O">>,
      <<"N", "O", "R", "D", "E", "S", "T", "E">>>>,
    <<<<"P", "I", "A", "U", "I">>,
      <<"N", "O", "R", "D", "E", "S", "T", "E">>>>,
    <<<<"R", "I", "O", " ", "G", "R", "A", "N", "D", "E", " ", "D", "O", " ", "N", "O", "R", "T", "E">>,
      <<"N", "O", "R", "D", "E", "S", "T", "E">>>>,
    <<<<"S", "E", "R", "G", "I", "P", "E">>,
      <<"N", "O", "R", "D", "E", "S", "T", "E">>>>,
    <<<<"E", "S", "P", "I", "R", "I", "T", "O", " ", "S", "A", "N", "T", "O">>,
      <<"S", "U", "D", "E", "S", "T", "E">>>>,
    <<<<"M", "I", "N", "A", "S", " ", "G", "E", "R", "A", "I", "S">>,
      <<"S", "U", "D", "E", "S", "T", "E">>>>,
    <<<<"R", "I", "O", " ", "D", "E", " ", "J", "A", "N", "E", "I", "R", "O">>,
      <<"S", "U", "D", "E", "S", "T", "E">>>>,
    <<<<"S", "A", "O", " ", "P", "A", "U", "L", "O">>,
      <<"S", "U", "D", "E", "S", "T", "E">>>>,
    <<<<"P", "A", "R", "A", "N", "A">>,
      <<"S", "U", "L">>>>,
    <<<<"R", "I", "O", " ", "G", "R", "A", "N", "D", "E", " ", "D", "O", " ", "S", "U", "L">>,
      <<"S", "U", "L">>>>,
    <<<<"S", "A", "N", "T", "A", " ", "C", "A", "T", "A", "R", "I", "N", "A">>,
      <<"S", "U", "L">>>>,
    <<<<"D", "I", "S", "T", "R", "I", "T", "O", " ", "F", "E", "D", "E", "R", "A", "L">>,
      <<"C", "E", "N", "T", "R", "O", "-", "O", "E", "S", "T", "E">>>>,
    <<<<"G", "O", "I", "A", "S">>,
      <<"C", "E", "N", "T", "R", "O", "-", "O", "E", "S", "T", "E">>>>,
    <<<<"M", "A", "T", "O", " ", "G", "R", "O", "S", "S", "O">>,
      <<"C", "E", "N", "T", "R", "O", "-", "O", "E", "S", "T", "E">>>>,
    <<<<"M", "A", "T", "O", " ", "G", "R", "O", "S", "S", "O", " ", "D", "O", " ", "S", "U", "L">>,
      <<"C", "E", "N", "T", "R", "O", "-", "O", "E", "S", "T", "E">>>>>>

\* UF_TO_REGIAO.get(uf, padrao)
regiao_da_uf(uf, padrao) == busca(UF_TO_REGIAO, 1, 2, uf, padrao)

\* 'NA~O IDENTIFICADA', the region the qualification engine gives an unmapped state.
NAO_IDENTIFICADA == <<"N", "A~", "O", " ", "I", "D", "E", "N", "T", "I", "F", "I", "C", "A", "D", "A">>

\* 'NAO IDENTIFICADO', the value the loaders give NO_REGIAO for an unmapped state.
NAO_IDENTIFICADO == <<"N", "A", "O", " ", "I", "D", "E", "N", "T", "I", "F", "I", "C", "A", "D", "O">>

-----------------------------------------------------------------------------
(* Order of strings                                                        *)

\* Code-point order of the characters that normalized names and facility
\* codes are made of.
ORDEM_CHAR ==
  <<" ", "-", "0", "1", "2", "3", "4", "5", "6", "7", "8", "9",
    "A", "B", "C", "D", "E", "F", "G", "H", "I", "J", "K", "L", "M",
    "N", "O", "P", "Q", "R", "S", "T", "U", "V", "W", "X", "Y", "Z",
    "a", "b", "c", "d", "e", "f", "g", "h", "i", "j", "k", "l", "m",
    "n", "o", "p", "q", "r", "s", "t", "u", "v", "w", "x", "y", "z">>

\* list.index: the position of c in s.
indice(s, c) == CHOOSE i \in DOMAIN s : s[i] = c

ord(c) == indice(ORDEM_CHAR, c)

\* a < b for two strings, as Python compares them.
menor(a, b) ==
  \E i \in 1..Len(b) :
    /\ \A j \in 1..(i - 1) : j <= Len(a) /\ a[j] = b[j]
    /\ (i > Len(a) \/ (i - 1 < Len(a) /\ ord(a[i]) < ord(b[i])))

\* sorted(S) for a set of strings.
sorted(S) ==
  [k \in 1..Cardinality(S) |->
     CHOOSE x \in S : Cardinality({y \in S : menor(y, x)}) = k - 1]

\* Series.unique(): the distinct values in order of first appearance.
unique(s) == NasPosicoes(s, {i \in 1..Len(s) : \A j \in 1..(i - 1) : s[j] # s[i]})

\* The column c of a data frame, as a sequence.
coluna(df, c) == [i \in 1..Len(df) |-> df[i][c]]

\* Series.value_counts(): (value, count) pairs by decreasing count, equal
\* counts in order of first appearance.
value_counts(s) ==
  LET n(v) == Cardinality({i \in 1..Len(s) : s[i] = v})
      antes(u, i, j) == n(u[i]) > n(u[j]) \/ (n(u[i]) = n(u[j]) /\ i < j)
      posicao(u, k) ==
        CHOOSE i \in 1..Len(u) : Cardinality({j \in 1..Len(u) : antes(u, j, i)}) = k - 1
      par(v) == <<v, n(v)>>
      contagens(u) == [k \in 1..Len(u) |-> par(u[posicao(u, k)])]
  IN  contagens(unique(s))

\* The concatenation of the sequences of a sequence.
RECURSIVE concat(_)
concat(ss) == IF ss = <<>> THEN <<>> ELSE Head(ss) \o concat(Tail(ss))

-----------------------------------------------------------------------------
(* Selection resolver                                                      *)

TODOS == <<"T", "O", "D", "O", "S">>

\* processing_geral.py
HIERARQUIA ==
  <<<<"regiao", "REGIAO", "NO_REGIAO">>,
    <<"uf", "UF", "NO_UF">>,
    <<"macro", "MACRORREGIAO", "NO_MACRO_REG_SAUDE">>,
    <<"regiaoSaude", "REGIAO_SAUDE", "NO_REGIAO_SAUDE">>,
    <<"municipio", "MUNICIPIO", "NO_MUNICIPIO">>,
    <<"unidade", "TIPO_UNIDADE", "DS_TIPO_UNIDADE">>,
    <<"cnes", "CNES", "CO_CNES">>>>

\* processing_geral_2.py: the macroregion and municipality levels are spelt with
\* their accents ("MACRORREGIA~O" is MACRORREGIAO with a tilde on the last A,
\* "MUNICI'PIO" is MUNICIPIO with an acute accent on the second I).
HIERARQUIA_2 ==
  <<<<"regiao", "REGIAO", "NO_REGIAO">>,
    <<"uf", "UF", "NO_UF">>,
    <<"macro", "MACRORREGIA~O", "NO_MACRO_REG_SAUDE">>,
    <<"regiaoSaude", "REGIAO_SAUDE", "NO_REGIAO_SAUDE">>,
    <<"municipio", "MUNICI'PIO", "NO_MUNICIPIO">>,
    <<"unidade", "TIPO_UNIDADE", "DS_TIPO_UNIDADE">>,
    <<"cnes", "CNES", "CO_CNES">>>>

Chaves == {HIERARQUIA[i][1] : i \in 1..Len(HIERARQUIA)}

\* dict.get(chave): None when the key is absent.
get(d, chave) == IF chave \in DOMAIN d THEN d[chave] ELSE Nulo

\* dict.get(chave, padrao)
get_ou(d, chave, padrao) == IF chave \in DOMAIN d THEN d[chave] ELSE padrao

\* Python truth value of a string or None.
verdadeiro(v) == v # Nulo /\ v # Vazio

\* d[chave] = valor on a dict.
atribui(d, chave, valor) ==
  [c \in DOMAIN d \cup {chave} |-> IF c = chave THEN valor ELSE d[c]]

DictVazio == [c \in {} |-> Vazio]

RECURSIVE mapear_laco(_, _, _, _)

\* A resolver that keeps the first populated level instead of the last.
mapear_laco_primeiro_vence(H, d, i, acc) ==
  IF i > Len(H) THEN acc
  ELSE
    LET valor_original == get(d, H[i][1])
        valor_padronizado == padronizar_nome_geografico(valor_original)
    IN  IF verdadeiro(valor_original) /\ valor_padronizado # TODOS
        THEN mapear_laco(H, d, i + 1,
               [NIVEL_AGREGACAO |-> IF acc.NIVEL_AGREGACAO = "NACIONAL"
                                    THEN H[i][2] ELSE acc.NIVEL_AGREGACAO,
                FILTROS |-> IF H[i][2] = "CNES"
                            THEN atribui(acc.FILTROS, "CO_CNES", valor_original)
                            ELSE atribui(acc.FILTROS, H[i][3], valor_padronizado)])
        ELSE mapear_laco(H, d, i + 1, acc)

\* A resolver that takes a level only when its normalized value is not empty.
mapear_laco_sem_vazios(H, d, i, acc) ==
  IF i > Len(H) THEN acc
  ELSE
    LET valor_original == get(d, H[i][1])
        valor_padronizado == padronizar_nome_geografico(valor_original)
    IN  IF valor_padronizado # Vazio /\ valor_padronizado # TODOS
        THEN mapear_laco(H, d, i + 1,
               [NIVEL_AGREGACAO |-> H[i][2],
                FILTROS |-> IF H[i][2] = "CNES"
                            THEN atribui(acc.FILTROS, "CO_CNES", valor_original)
                            ELSE atribui(acc.FILTROS, H[i][3], valor_padronizado)])
        ELSE mapear_laco(H, d, i + 1, acc)

\* A resolver without the special case of the facility code.
mapear_laco_cnes_padronizado(H, d, i, acc) ==
  IF i > Len(H) THEN acc
  ELSE
    LET valor_original == get(d, H[i][1])
        valor_padronizado == padronizar_nome_geografico(valor_original)
    IN  IF verdadeiro(valor_original) /\ valor_padronizado # TODOS
        THEN mapear_laco(H, d, i + 1,
               [NIVEL_AGREGACAO |-> H[i][2],
                FILTROS |-> atribui(acc.FILTROS, H[i][3], valor_padronizado)])
        ELSE mapear_laco(H, d, i + 1, acc)

\* One iteration of the loop over the hierarchy, from entry i on.
mapear_laco(H, d, i, acc) ==
  IF i > Len(H) THEN acc
  ELSE
    LET chave_frontend == H[i][1]
        nivel_nome == H[i][2]
        coluna_df == H[i][3]
        valor_original == get(d, chave_frontend)
        valor_padronizado == padronizar_nome_geografico(valor_original)
    IN  IF verdadeiro(valor_original) /\ valor_padronizado # TODOS
        THEN mapear_laco(H, d, i + 1,
               [NIVEL_AGREGACAO |-> nivel_nome,
                FILTROS |-> IF nivel_nome = "CNES"
                            THEN atribui(acc.FILTROS, "CO_CNES", valor_original)
                            ELSE atribui(acc.FILTROS, coluna_df, valor_padronizado)])
        ELSE mapear_laco(H, d, i + 1, acc)

mapear_selecao_geral(d) ==
  mapear_laco(HIERARQUIA, d, 1, [NIVEL_AGREGACAO |-> "NACIONAL", FILTROS |-> DictVazio])

mapear_selecao_geral_2(d) ==
  mapear_laco(HIERARQUIA_2, d, 1, [NIVEL_AGREGACAO |-> "NACIONAL", FILTROS |-> DictVazio])

-----------------------------------------------------------------------------
(* The backing files                                                       *)

\* The rows the three parquet files can hold, as stored (raw): state,
\* macroregion, health region, municipality, facility type, facility code,
\* facility name, the grouping value (qualification, service or procedure
\* subgroup), and for the procedures file the record type and the two measures
\* (approved quantity, approved value in hundredths).
REGISTROS ==
  <<[UF |-> <<"S", "a~", "o", " ", "P", "a", "u", "l", "o">>,
     MACRO |-> <<"0", "0", "3", "5", "-", "R", "R", "A", "S", " ", "5", " ", "L", "e", "s", "t", "e">>,
     RS |-> <<"A", "l", "t", "o", " ", "T", "i", "e", "t", "e^">>,
     MUN |-> <<"S", "u", "z", "a", "n", "o">>,
     TIPO |-> <<"H", "o", "s", "p", "i", "t", "a", "l">>,
     CNES |-> <<"2", "0", "8", "0", "0", "0", "1">>,
     FANTASIA |-> <<"S", "a", "n", "t", "a", " ", "C", "a", "s", "a">>,
     GRUPO |-> <<"U", "T", "I">>,
     TP |-> <<"P", "R", "I", "N", "C", "I", "P", "A", "L">>,
     Q |-> <<10>>,
     V |-> <<100>>],
    [UF |-> <<"S", "a~", "o", " ", "P", "a", "u", "l", "o">>,
     MACRO |-> <<"0", "0", "3", "5", "-", "R", "R", "A", "S", " ", "5", " ", "L", "e", "s", "t", "e">>,
     RS |-> <<"A", "l", "t", "o", " ", "T", "i", "e", "t", "e^">>,
     MUN |-> <<"M", "o", "g", "i">>,
     TIPO |-> <<"C", "l", "i'", "n", "i", "c", "a">>,
     CNES |-> <<"2", "0", "8", "0", "0", "0", "2">>,
     FANTASIA |-> <<"C", "l", "i'", "n", "i", "c", "a", " ", "M", "o", "g", "i">>,
     GRUPO |-> <<"U", "T", "I">>,
     TP |-> <<"P", "R", "I", "N", "C", "I", "P", "A", "L">>,
     Q |-> <<5>>,
     V |-> <<50>>],
    [UF |-> <<"B", "a", "h", "i", "a">>,
     MACRO |-> <<"S", "u", "l">>,
     RS |-> <<"I", "t", "a", "b", "u", "n", "a">>,
     MUN |-> <<"B", "o", "n", "i", "t", "o">>,
     TIPO |-> <<"H", "o", "s", "p", "i", "t", "a", "l">>,
     CNES |-> <<"2", "9", "0", "0", "0", "0", "3">>,
     FANTASIA |-> <<"H", "o", "s", "p", "i", "t", "a", "l", " ", "B", "o", "n", "i", "t", "o">>,
     GRUPO |-> <<"U", "T", "I">>,
     TP |-> <<"P", "R", "I", "N", "C", "I", "P", "A", "L">>,
     Q |-> <<3>>,
     V |-> <<30>>],
    [UF |-> <<"P", "a", "r", "a'">>,
     MACRO |-> <<"S", "u", "l">>,
     RS |-> <<"C", "a", "e", "t", "e'", "s">>,
     MUN |-> <<"B", "o", "n", "i", "t", "o">>,
     TIPO |-> <<"H", "o", "s", "p", "i", "t", "a", "l">>,
     CNES |-> <<"1", "5", "0", "0", "0", "0", "4">>,
     FANTASIA |-> <<"H", "o", "s", "p", "i", "t", "a", "l", " ", "G", "e", "r", "a", "l">>,
     GRUPO |-> <<"U", "T", "I">>,
     TP |-> <<"P", "R", "I", "N", "C", "I", "P", "A", "L">>,
     Q |-> <<2>>,
     V |-> <<20>>],
    [UF |-> <<"E", "x", "t", "e", "r", "i", "o", "r">>,
     MACRO |-> <<"F", "o", "r", "a">>,
     RS |-> <<"F", "o", "r", "a">>,
     MUN |-> <<"O", "u", "t", "r", "o">>,
     TIPO |-> <<"P", "o", "s", "t", "o">>,
     CNES |-> <<"9", "9", "0", "0", "0", "0", "5">>,
     FANTASIA |-> <<"P", "o", "s", "t", "o", " ", "U", "m">>,
     GRUPO |-> <<"U", "T", "I">>,
     TP |-> <<"P", "R", "I", "N", "C", "I", "P", "A", "L">>,
     Q |-> <<>>,
     V |-> <<10>>],
    [UF |-> <<"S", "a~", "o", " ", "P", "a", "u", "l", "o">>,
     MACRO |-> <<"0", "0", "3", "5", "-", "R", "R", "A", "S", " ", "5", " ", "L", "e", "s", "t", "e">>,
     RS |-> <<"A", "l", "t", "o", " ", "T", "i", "e", "t", "e^">>,
     MUN |-> <<"S", "u", "z", "a", "n", "o">>,
     TIPO |-> <<"H", "o", "s", "p", "i", "t", "a", "l">>,
     CNES |-> <<"2", "0", "8", "0", "0", "0", "1">>,
     FANTASIA |-> <<"S", "a", "n", "t", "a", " ", "C", "a", "s", "a">>,
     GRUPO |-> <<"D", "i", "a'", "l", "i", "s", "e">>,
     TP |-> <<"P", "R", "I", "N", "C", "I", "P", "A", "L">>,
     Q |-> <<4>>,
     V |-> <<40>>],
    [UF |-> <<"S", "a~", "o", " ", "P", "a", "u", "l", "o">>,
     MACRO |-> <<"0", "0", "3", "5", "-", "R", "R", "A", "S", " ", "5", " ", "L", "e", "s", "t", "e">>,
     RS |-> <<"A", "l", "t", "o", " ", "T", "i", "e", "t", "e^">>,
     MUN |-> <<"S", "u", "z", "a", "n", "o">>,
     TIPO |-> <<"H", "o", "s", "p", "i", "t", "a", "l">>,
     CNES |-> <<"2", "0", "8", "0", "0", "0", "1">>,
     FANTASIA |-> <<"S", "a", "n", "t", "a", " ", "C", "a", "s", "a">>,
     GRUPO |-> <<"U", "T", "I">>,
     TP |-> <<"S", "E", "C", "U", "N", "D", "A", "R", "I", "O">>,
     Q |-> <<7>>,
     V |-> <<70>>],
    [UF |-> <<"B", "a", "h", "i", "a">>,
     MACRO |-> <<"S", "u", "l">>,
     RS |-> <<"I", "t", "a", "b", "u", "n", "a">>,
     MUN |-> <<"I", "l", "h", "e'", "u", "s">>,
     TIPO |-> <<"C", "l", "i'", "n", "i", "c", "a">>,
     CNES |-> <<"2", "9", "0", "0", "0", "0", "8">>,
     FANTASIA |-> <<"C", "l", "i'", "n", "i", "c", "a", " ", "S", "u", "l">>,
     GRUPO |-> <<"D", "i", "a'", "l", "i", "s", "e">>,
     TP |-> <<"P", "R", "I", "N", "C", "I", "P", "A", "L">>,
     Q |-> <<6>>,
     V |-> <<60>>],
    [UF |-> <<"S", "a~", "o", " ", "P", "a", "u", "l", "o">>,
     MACRO |-> Nulo,
     RS |-> Vazio,
     MUN |-> <<"S", "u", "z", "a", "n", "o">>,
     TIPO |-> <<"H", "o", "s", "p", "i", "t", "a", "l">>,
     CNES |-> <<"2", "0", "8", "0", "0", "0", "9">>,
     FANTASIA |-> <<"P", "o", "s", "t", "o", " ", "S", "u", "l">>,
     GRUPO |-> <<"U", "T", "I">>,
     TP |-> <<"P", "R", "I", "N", "C", "I", "P", "A", "L">>,
     Q |-> <<1>>,
     V |-> <<10>>]>>

\* A file holds at most this many rows.
MaxRegistros == 2

\* A file that may be missing holds at most this many rows.
MaxRegistrosArq == 1

\* A stored row lacks a value: its macroregion is null or its health region
\* is the empty text.
com_lacuna(i) == REGISTROS[i].MACRO = Nulo \/ REGISTROS[i].RS = Vazio

\* The contents a file of complete rows can have: rows of REGISTROS given by
\* their positions, in file order.
Bases ==
  {b \in SUBSET {i \in 1..Len(REGISTROS) : ~com_lacuna(i)} : Cardinality(b) <= MaxRegistros}

\* The contents of a file in which one row lacks a value.
BasesComLacuna ==
  {b \in SUBSET (1..Len(REGISTROS)) :
     Cardinality(b) <= MaxRegistros /\ Cardinality({i \in b : com_lacuna(i)}) = 1}

\* The positions of b in increasing order.
EmOrdem(b) == [k \in 1..Cardinality(b) |-> CHOOSE i \in b : Cardinality({j \in b : j < i}) = k - 1]

\* str(v) / Series.astype(str) for a value that is a string or None.
astype_str(v) == IF v = Nulo THEN <<"N", "o", "n", "e">> ELSE v

\* One row of the qualifications file after step 4 of gerar_tabela_cnes_hab:
\* every mapped column is turned into text and normalized.
linha_hab(r) ==
  [NO_UF |-> padronizar_nome_geografico(astype_str(r.UF)),
   NO_MACRO_REG_SAUDE |-> padronizar_nome_geografico(astype_str(r.MACRO)),
   NO_REGIAO_SAUDE |-> padronizar_nome_geografico(astype_str(r.RS)),
   NO_MUNICIPIO |-> padronizar_nome_geografico(astype_str(r.MUN)),
   DS_TIPO_UNIDADE |-> padronizar_nome_geografico(astype_str(r.TIPO)),
   CO_CNES |-> padronizar_nome_geografico(astype_str(r.CNES)),
   NO_FANTASIA |-> padronizar_nome_geografico(astype_str(r.FANTASIA)),
   DS_HABILITACAO |-> padronizar_nome_geografico(astype_str(r.GRUPO))]

\* uf_to_regiao_padronizado applied to a normalized state, with the fillna.
regiao_padronizada(uf) ==
  IF \E i \in 1..Len(UF_TO_REGIAO) : padronizar_nome_geografico(UF_TO_REGIAO[i][1]) = uf
  THEN padronizar_nome_geografico(
         UF_TO_REGIAO[CHOOSE i \in 1..Len(UF_TO_REGIAO) :
                        padronizar_nome_geografico(UF_TO_REGIAO[i][1]) = uf][2])
  ELSE NAO_IDENTIFICADO

\* One row of the services file after _carregar_base_cnes_srv.
linha_srv(r) ==
  [NO_UF |-> padronizar_nome_geografico(r.UF),
   NO_MACRO_REG_SAUDE |-> padronizar_nome_geografico(r.MACRO),
   NO_REGIAO_SAUDE |-> padronizar_nome_geografico(r.RS),
   NO_MUNICIPIO |-> padronizar_nome_geografico(r.MUN),
   DS_TIPO_UNIDADE |-> padronizar_nome_geografico(r.TIPO),
   NO_SERVICO |-> padronizar_nome_geografico(r.GRUPO),
   NO_FANTASIA |-> padronizar_nome_geografico(r.FANTASIA),
   NO_REGIAO |-> regiao_padronizada(padronizar_nome_geografico(r.UF)),
   CO_CNES |-> astype_str(r.CNES)]

PRINCIPAL == <<"P", "R", "I", "N", "C", "I", "P", "A", "L">>

\* pd.to_numeric(errors='coerce').fillna(0) of a stored measure, <<n>> when it
\* reads as the number n and <<>> when it does not: what is no number counts as 0.
to_numeric(v) == IF v = <<>> THEN 0 ELSE v[1]

\* One row of the procedures file after _carregar_base_sia_oci (the rows that
\* are not PRINCIPAL are dropped before, see carregar_oci).
linha_oci(r) ==
  [NO_UF |-> padronizar_nome_geografico(r.UF),
   NO_MACRO_REG_SAUDE |-> padronizar_nome_geografico(r.MACRO),
   NO_REGIAO_SAUDE |-> padronizar_nome_geografico(r.RS),
   NO_MUNICIPIO |-> padronizar_nome_geografico(r.MUN),
   NO_FANTASIA |-> padronizar_nome_geografico(r.FANTASIA),
   NO_SUBGRUPO_PROCED |-> padronizar_nome_geografico(r.GRUPO),
   TP_REGISTRO |-> r.TP,
   NO_REGIAO |-> regiao_padronizada(padronizar_nome_geografico(r.UF)),
   CO_CNES |-> astype_str(r.CNES),
   QUANT_APROV |-> to_numeric(r.Q),
   VALOR_APROV |-> to_numeric(r.V)]

\* The processed rows, computed once for every row a file can hold.
LINHAS_HAB == [i \in 1..Len(REGISTROS) |-> linha_hab(REGISTROS[i])]

LINHAS_SRV == [i \in 1..Len(REGISTROS) |-> linha_srv(REGISTROS[i])]

LINHAS_OCI == [i \in 1..Len(REGISTROS) |-> linha_oci(REGISTROS[i])]

\* The threads that serve requests, at most this many at a time.
NumThreads == 2

Threads == 1..NumThreads

\* A thread that is in no call: its position, the engine it called, the frame
\* it holds, and the engine whose data its last finished call had loaded.
Parado == [pc |-> "ocioso", motor |-> "nenhum", df |-> <<>>, antes |-> {}]

SemChamadas == [t \in Threads |-> Parado]

\* The data frame gerar_tabela_cnes_hab works on, for a file holding the rows b.
carregar_hab(b) == [k \in 1..Cardinality(b) |-> LINHAS_HAB[EmOrdem(b)[k]]]

\* The data frame _carregar_base_cnes_srv caches, for a file holding the rows b.
carregar_srv(b) == [k \in 1..Cardinality(b) |-> LINHAS_SRV[EmOrdem(b)[k]]]

\* Every row of the file kept, whatever its record type.
carregar_oci_todos(b) == [k \in 1..Cardinality(b) |-> LINHAS_OCI[EmOrdem(b)[k]]]

\* The data frame _carregar_base_sia_oci caches: only the PRINCIPAL rows.
carregar_oci(b) ==
  LET p == {i \in b : REGISTROS[i].TP = PRINCIPAL}
  IN  [k \in 1..Cardinality(p) |-> LINHAS_OCI[EmOrdem(p)[k]]]

-----------------------------------------------------------------------------
(* Number formatting                                                       *)

DIGITOS_EM_ORDEM == <<"0", "1", "2", "3", "4", "5", "6", "7", "8", "9">>

RECURSIVE digitos(_)
\* '%d' % n for n >= 0.
digitos(n) ==
  IF n < 10 THEN <<DIGITOS_EM_ORDEM[n + 1]>>
  ELSE Append(digitos(n \div 10), DIGITOS_EM_ORDEM[(n % 10) + 1])

\* The locales the start-up sequence of the modules can end up with.
Localidades == {"pt_BR.UTF-8", "Portuguese_Brazil.1252", "C"}

\* localeconv()['thousands_sep'] and ['decimal_point'] of a locale; the C
\* locale has no thousands separator and no grouping.
thousands_sep(loc) == IF loc = "C" THEN <<>> ELSE <<".">>

decimal_point(loc) == IF loc = "C" THEN <<".">> ELSE <<",">>

\* Digits grouped in threes from the right with the separator sep.
agrupa(ds, sep) ==
  concat([i \in 1..Len(ds) |->
            IF i > 1 /\ (Len(ds) - i + 1) % 3 = 0 THEN sep \o <<ds[i]>> ELSE <<ds[i]>>])

\* formatar_populacao of a number under the locale loc:
\* locale.format_string('%d', int(pop), grouping=True).
formatar_populacao(pop, loc) == agrupa(digitos(pop), thousands_sep(loc))

\* formatar_valor_monetario of a number under the locale loc, the value given
\* in hundredths: locale.format_string('%.2f', float(valor), grouping=True).
formatar_valor_monetario(valor, loc) ==
  agrupa(digitos(valor \div 100), thousands_sep(loc)) \o decimal_point(loc)
    \o <<DIGITOS_EM_ORDEM[((valor % 100) \div 10) + 1], DIGITOS_EM_ORDEM[(valor % 10) + 1]>>

\* The values a cell or a sum handed to a formatter can hold: None, the
\* floats nan and inf, a number (given in hundredths) and a text.
NaN == <<"nan">>

Infinito == <<"inf">>

numero(centesimos) == <<"numero", centesimos>>

texto(s) == <<"texto", s>>

\* pd.isna(v) or v is None
isna(v) == v = NaN \/ v = Nulo

RECURSIVE valor_dos_digitos(_)
\* The number a text of decimal digits spells.
valor_dos_digitos(s) ==
  IF s = <<>> THEN 0
  ELSE 10 * valor_dos_digitos(SubSeq(s, 1, Len(s) - 1)) + indice(DIGITOS_EM_ORDEM, s[Len(s)]) - 1

\* A text int() and float() read as a number: one or more decimal digits.
so_digitos(s) == s # <<>> /\ \A i \in DOMAIN s : s[i] \in Digitos

\* int(v) of a value that is not None: <<n>>, or <<>> where int raises
\* (OverflowError for inf, ValueError for nan and for a text that spells no number).
int_de(v) ==
  CASE v[1] = "numero" -> <<v[2] \div 100>>
    [] v[1] = "texto" /\ so_digitos(v[2]) -> <<valor_dos_digitos(v[2])>>
    [] OTHER -> <<>>

\* float(v) of a value that is not None: a number, Infinito or NaN, or <<>>
\* where float raises (a text that spells no number).
float_de(v) ==
  CASE v[1] = "numero" -> v
    [] v[1] = "texto" /\ so_digitos(v[2]) -> numero(100 * valor_dos_digitos(v[2]))
    [] v[1] \in {"inf", "nan"} -> v
    [] OTHER -> <<>>

\* str(v) of a value that is not a number.
str_de(v) ==
  CASE v[1] = "texto" -> v[2]
    [] v = Infinito -> <<"i", "n", "f">>
    [] v = NaN -> <<"n", "a", "n">>
    [] OTHER -> <<"N", "o", "n", "e">>

\* The first attempt of formatar_populacao, inside its try:
\* locale.format_string('%d', int(pop), grouping=True).
populacao_pelo_locale(pop, loc) ==
  IF int_de(pop) = <<>> THEN EXCECAO ELSE formatar_populacao(int_de(pop)[1], loc)

\* The second attempt, inside the except: f'{int(pop):,}' with ',' made '.'.
populacao_manual(pop) ==
  IF int_de(pop) = <<>> THEN EXCECAO ELSE agrupa(digitos(int_de(pop)[1]), <<".">>)

\* formatar_populacao(pop) for any value pop, under the locale loc: '0' for
\* a missing value, else the first attempt that does not raise, else str(pop).
formatar_populacao_valor(pop, loc) ==
  IF isna(pop) THEN <<"0">>
  ELSE IF populacao_pelo_locale(pop, loc) # EXCECAO THEN populacao_pelo_locale(pop, loc)
  ELSE IF populacao_manual(pop) # EXCECAO THEN populacao_manual(pop)
  ELSE str_de(pop)

\* The first attempt of formatar_valor_monetario, inside its try:
\* locale.format_string('%.2f', float(valor), grouping=True); '%.2f' of inf is 'inf'.
monetario_pelo_locale(v, loc) ==
  IF float_de(v) = <<>> THEN EXCECAO
  ELSE IF float_de(v) \in {Infinito, NaN} THEN str_de(float_de(v))
  ELSE formatar_valor_monetario(float_de(v)[2], loc)

\* The second attempt, inside the except: f'{float(valor):,.2f}' with ','
\* and '.' exchanged.
monetario_manual(v) ==
  IF float_de(v) = <<>> THEN EXCECAO
  ELSE IF float_de(v) \in {Infinito, NaN} THEN str_de(float_de(v))
  ELSE formatar_valor_monetario(float_de(v)[2], "pt_BR.UTF-8")

\* formatar_valor_monetario(valor) for any value, under the locale loc:
\* '0,00' for a missing value, else the first attempt that does not raise,
\* else str(valor).
formatar_valor_monetario_valor(v, loc) ==
  IF isna(v) THEN <<"0", ",", "0", "0">>
  ELSE IF monetario_pelo_locale(v, loc) # EXCECAO THEN monetario_pelo_locale(v, loc)
  ELSE IF monetario_manual(v) # EXCECAO THEN monetario_manual(v)
  ELSE str_de(v)

-----------------------------------------------------------------------------
(* Qualifications engine: gerar_tabela_cnes_hab                            *)

\* The selection left out: every row is kept.
onde_sem_filtro(df, col, v) == df

\* The rows of df whose column col holds v: df[df[col] == v].
onde(df, col, v) ==
  LET igual(r) == r[col] = v
  IN  SelectSeq(df, igual)

\* The rows of df whose column col holds one of S: df[df[col].isin(S)].
onde_em(df, col, S) ==
  LET dentro(r) == r[col] \in S
  IN  SelectSeq(df, dentro)

\* "x and x not in ['NAN', '']": the value is no sentinel.
nao_sentinela(v) == v # Vazio /\ v # <<"N", "A", "N">>

CABECALHO == <<"NIVEL", "DESCRIC,A~O", "QUANT">>

BRASIL == <<"B", "R", "A", "S", "I", "L">>

\* The region names compared as stored.
ufs_da_regiao_crua(regiao) ==
  {par[1] : par \in {p \in valores(UF_TO_REGIAO) : p[2] = regiao}}

\* [uf for uf, reg in UF_TO_REGIAO.items() if padronizar_nome_geografico(reg) == regiao]
ufs_da_regiao_padronizada(regiao) ==
  {par[1] : par \in {p \in valores(UF_TO_REGIAO) : padronizar_nome_geografico(p[2]) = regiao}}

\* [uf for uf, reg in UF_TO_REGIAO.items() if reg == regiao]
ufs_da_regiao(regiao) ==
  {par[1] : par \in {p \in valores(UF_TO_REGIAO) : p[2] = regiao}}

\* f'{descricao} ({cnes})'
descricao_cnes(descricao, cnes) == descricao \o <<" ", "(">> \o cnes \o <<")">>

\* Step 6: only the filter of the selected level is applied.
filtros_aplicaveis ==
  [UF |-> "NO_UF", MACRORREGIAO |-> "NO_MACRO_REG_SAUDE", REGIAO_SAUDE |-> "NO_REGIAO_SAUDE",
   MUNICIPIO |-> "NO_MUNICIPIO", CNES |-> "CO_CNES"]

\* The REGION filter: the rows of the states of the region, every row when
\* the region has no state in the table.
filtrar_regiao_hab(df, ufs_da_regiao_selecionada) ==
  IF ufs_da_regiao_selecionada # {} THEN onde_em(df, "NO_UF", ufs_da_regiao_selecionada) ELSE df

\* The equality filter of the selected level.
filtrar_nivel_hab(df, nivel, filtros) ==
  IF nivel \in DOMAIN filtros_aplicaveis /\ filtros_aplicaveis[nivel] \in DOMAIN filtros
  THEN onde(df, filtros_aplicaveis[nivel], filtros[filtros_aplicaveis[nivel]])
  ELSE df

filtrar_hab(df, nivel, filtros) ==
  filtrar_nivel_hab(IF nivel = "REGIAO" /\ "NO_REGIAO" \in DOMAIN filtros
                    THEN filtrar_regiao_hab(df, ufs_da_regiao_padronizada(filtros["NO_REGIAO"]))
                    ELSE df,
                    nivel, filtros)

\* Rule 2 (NATIONAL selected): every region with its states, over the whole
\* data set of the qualification.
regra_nacional_hab(df_total_hab, loc) ==
  LET uf_de(r) == strip(upper(r.NO_UF))
      ufs == {uf_de(df_total_hab[k]) : k \in 1..Len(df_total_hab)}
      quant(uf) == Cardinality({k \in 1..Len(df_total_hab) : uf_de(df_total_hab[k]) = uf})
      regioes == sorted({regiao_da_uf(uf, NAO_IDENTIFICADA) : uf \in ufs} \ {NAO_IDENTIFICADA})
      bloco(regiao) ==
        LET ufs_regiao == sorted({uf \in ufs : regiao_da_uf(uf, NAO_IDENTIFICADA) = regiao})
            total_regiao == Cardinality({k \in 1..Len(df_total_hab) :
                                           regiao_da_uf(uf_de(df_total_hab[k]), NAO_IDENTIFICADA) = regiao})
        IN  <<<<"REGIA~O", title(regiao), formatar_populacao(total_regiao, loc)>>>>
              \o [j \in 1..Len(ufs_regiao) |->
                    <<" - UF", title(ufs_regiao[j]), formatar_populacao(quant(ufs_regiao[j]), loc)>>]
  IN  concat([i \in 1..Len(regioes) |-> bloco(regioes[i])])

\* The rows "rotulo, description, count" of the values of column col in df,
\* most frequent first, sentinels skipped; the description is value.title()
\* when so_title, get_descricao(value) otherwise.
linhas_contagem(df, col, rotulo, so_title, loc) ==
  LET vc == value_counts(coluna(df, col))
      descreve(v) == IF so_title THEN title(v) ELSE get_descricao(v)
  IN  concat([i \in 1..Len(vc) |->
                IF nao_sentinela(vc[i][1])
                THEN <<<<rotulo, descreve(vc[i][1]), formatar_populacao(vc[i][2], loc)>>>>
                ELSE <<>>])

\* Rule 3 (REGION selected): the region, its states with records and their
\* macroregions.
regra_regiao_hab(df_tipo, filtros, loc) ==
  LET regiao_selecionada == filtros["NO_REGIAO"]
      ufs == ufs_da_regiao_padronizada(regiao_selecionada)
      ordenadas == sorted(ufs)
      bloco(uf) ==
        LET df_uf == onde(df_tipo, "NO_UF", uf)
        IN  IF Len(df_uf) > 0
            THEN <<<<"UF", title(uf), formatar_populacao(Len(df_uf), loc)>>>>
                   \o linhas_contagem(df_uf, "NO_MACRO_REG_SAUDE", " - MACRORREGIA~O", FALSE, loc)
            ELSE <<>>
  IN  IF ufs = {} THEN <<>>
      ELSE <<<<"REGIA~O", title(regiao_selecionada),
               formatar_populacao(Len(onde_em(df_tipo, "NO_UF", ufs)), loc)>>>>
             \o concat([i \in 1..Len(ordenadas) |-> bloco(ordenadas[i])])

\* Rule 4 (STATE selected): the state, its macroregions and their health regions.
regra_uf_hab(df_tipo, df_total_hab, filtros, loc) ==
  LET uf_selecionada == filtros["NO_UF"]
      macros_uf == value_counts(coluna(df_tipo, "NO_MACRO_REG_SAUDE"))
      bloco(macro, quant_macro) ==
        IF nao_sentinela(macro)
        THEN <<<<"MACRORREGIA~O", get_descricao(macro), formatar_populacao(quant_macro, loc)>>>>
               \o linhas_contagem(onde(df_tipo, "NO_MACRO_REG_SAUDE", macro), "NO_REGIAO_SAUDE",
                                  " - REGIA~O DE SAUDE", FALSE, loc)
        ELSE <<>>
  IN  <<<<"UF", title(uf_selecionada),
          formatar_populacao(Len(onde(df_total_hab, "NO_UF", uf_selecionada)), loc)>>>>
        \o concat([i \in 1..Len(macros_uf) |-> bloco(macros_uf[i][1], macros_uf[i][2])])

\* The rows of the levels above the selected one in rules 5 to 8: the region
\* (when the state is mapped), the state and the macroregion of the first
\* filtered record, each counted over the whole data set of the qualification
\* by its own column alone.
contexto_regiao_uf_hab(df_total_hab, uf, loc) ==
  LET regiao == regiao_da_uf(uf, NAO_IDENTIFICADA)
  IN  (IF regiao # NAO_IDENTIFICADA
       THEN <<<<"REGIA~O", title(regiao),
                formatar_populacao(Len(onde_em(df_total_hab, "NO_UF", ufs_da_regiao(regiao))), loc)>>>>
       ELSE <<>>)
      \o <<<<"UF", title(uf), formatar_populacao(Len(onde(df_total_hab, "NO_UF", uf)), loc)>>>>

linha_macro_hab(df_total_hab, macro, loc) ==
  <<"MACRORREGIA~O", get_descricao(macro),
    formatar_populacao(Len(onde(df_total_hab, "NO_MACRO_REG_SAUDE", macro)), loc)>>

linha_regiao_saude_hab(df_total_hab, rs, loc) ==
  <<"REGIA~O DE SAUDE", get_descricao(rs),
    formatar_populacao(Len(onde(df_total_hab, "NO_REGIAO_SAUDE", rs)), loc)>>

linha_municipio_hab(df_total_hab, municipio, loc) ==
  <<"MUNICIPIO", title(municipio),
    formatar_populacao(Len(onde(df_total_hab, "NO_MUNICIPIO", municipio)), loc)>>

\* Rule 5 (MACROREGION selected): context rows, then the health regions of
\* the filtered records.
regra_macrorregiao_hab(df_tipo, df_total_hab, filtros, loc) ==
  contexto_regiao_uf_hab(df_total_hab, df_tipo[1].NO_UF, loc)
    \o <<linha_macro_hab(df_total_hab, filtros["NO_MACRO_REG_SAUDE"], loc)>>
    \o linhas_contagem(df_tipo, "NO_REGIAO_SAUDE", " - REGIA~O DE SAUDE", FALSE, loc)

\* Rule 6 (HEALTH REGION selected): context rows, then the municipalities of
\* the filtered records.
regra_regiao_saude_hab(df_tipo, df_total_hab, filtros, loc) ==
  contexto_regiao_uf_hab(df_total_hab, df_tipo[1].NO_UF, loc)
    \o <<linha_macro_hab(df_total_hab, df_tipo[1].NO_MACRO_REG_SAUDE, loc),
         linha_regiao_saude_hab(df_total_hab, filtros["NO_REGIAO_SAUDE"], loc)>>
    \o linhas_contagem(df_tipo, "NO_MUNICIPIO", " - MUNICIPIO", TRUE, loc)

\* Rule 7 (MUNICIPALITY selected): context rows, then the facility types of
\* the filtered records, each followed by its facilities.
regra_municipio_hab(df_tipo, df_total_hab, filtros, loc) ==
  LET tipos_unidade == value_counts(coluna(df_tipo, "DS_TIPO_UNIDADE"))
      bloco(tipo_unidade, quant_tipo) ==
        LET df_tipo_especifico == onde(df_tipo, "DS_TIPO_UNIDADE", tipo_unidade)
            cnes_tipo == value_counts(coluna(df_tipo_especifico, "CO_CNES"))
        IN  IF nao_sentinela(tipo_unidade)
            THEN <<<<" - TIPO_UNIDADE", title(tipo_unidade), formatar_populacao(quant_tipo, loc)>>>>
                   \o concat([j \in 1..Len(cnes_tipo) |->
                        IF nao_sentinela(cnes_tipo[j][1])
                        THEN <<<<" - - CNES",
                                 descricao_cnes(
                                   get_descricao(onde(df_tipo_especifico, "CO_CNES",
                                                      cnes_tipo[j][1])[1].NO_FANTASIA),
                                   cnes_tipo[j][1]),
                                 formatar_populacao(cnes_tipo[j][2], loc)>>>>
                        ELSE <<>>])
            ELSE <<>>
  IN  contexto_regiao_uf_hab(df_total_hab, df_tipo[1].NO_UF, loc)
        \o <<linha_macro_hab(df_total_hab, df_tipo[1].NO_MACRO_REG_SAUDE, loc),
             linha_regiao_saude_hab(df_total_hab, df_tipo[1].NO_REGIAO_SAUDE, loc),
             linha_municipio_hab(df_total_hab, filtros["NO_MUNICIPIO"], loc)>>
        \o concat([i \in 1..Len(tipos_unidade) |-> bloco(tipos_unidade[i][1], tipos_unidade[i][2])])

\* Rule 8 (FACILITY selected): context rows of the first filtered record, its
\* facility type and the facility itself with the literal count '1'.
regra_cnes_hab(df_tipo, df_total_hab, filtros, loc) ==
  LET unidade_info == df_tipo[1]
  IN  contexto_regiao_uf_hab(df_total_hab, unidade_info.NO_UF, loc)
        \o <<linha_macro_hab(df_total_hab, unidade_info.NO_MACRO_REG_SAUDE, loc),
             linha_regiao_saude_hab(df_total_hab, unidade_info.NO_REGIAO_SAUDE, loc),
             linha_municipio_hab(df_total_hab, unidade_info.NO_MUNICIPIO, loc),
             <<"TIPO_UNIDADE", title(unidade_info.DS_TIPO_UNIDADE),
               formatar_populacao(Len(onde(df_total_hab, "DS_TIPO_UNIDADE",
                                           unidade_info.DS_TIPO_UNIDADE)), loc)>>,
             <<" - CNES",
               descricao_cnes(get_descricao(unidade_info.NO_FANTASIA), filtros["CO_CNES"]),
               <<"1">>>>>>

\* Step 8 for one qualification: header, NATIONAL row, and the rows of the
\* rule of the selected level (no rule exists for the facility-type level).
tabela_hab(df, df_filtrado, nivel, filtros, tipo_hab, loc) ==
  LET df_tipo == onde(df_filtrado, "DS_HABILITACAO", tipo_hab)
      df_total_hab == onde(df, "DS_HABILITACAO", tipo_hab)
  IN  <<CABECALHO, <<"NACIONAL", BRASIL, formatar_populacao(Len(df_total_hab), loc)>>>>
        \o (IF nivel = "NACIONAL" THEN regra_nacional_hab(df_total_hab, loc)
            ELSE IF nivel = "REGIAO" /\ "NO_REGIAO" \in DOMAIN filtros
            THEN regra_regiao_hab(df_tipo, filtros, loc)
            ELSE IF nivel = "UF" /\ "NO_UF" \in DOMAIN filtros
            THEN regra_uf_hab(df_tipo, df_total_hab, filtros, loc)
            ELSE IF nivel = "MACRORREGIAO" /\ "NO_MACRO_REG_SAUDE" \in DOMAIN filtros
            THEN regra_macrorregiao_hab(df_tipo, df_total_hab, filtros, loc)
            ELSE IF nivel = "REGIAO_SAUDE" /\ "NO_REGIAO_SAUDE" \in DOMAIN filtros
            THEN regra_regiao_saude_hab(df_tipo, df_total_hab, filtros, loc)
            ELSE IF nivel = "MUNICIPIO" /\ "NO_MUNICIPIO" \in DOMAIN filtros
            THEN regra_municipio_hab(df_tipo, df_total_hab, filtros, loc)
            ELSE IF nivel = "CNES" /\ "CO_CNES" \in DOMAIN filtros
            THEN regra_cnes_hab(df_tipo, df_total_hab, filtros, loc)
            ELSE <<>>)

\* Every table of the filtered frame kept, whatever its length.
tabelas_hab_sem_descarte(df, df_filtrado, nivel_selecionado, filtros, loc) ==
  LET tipos_hab == unique(coluna(df_filtrado, "DS_HABILITACAO"))
  IN  IF df_filtrado = <<>> THEN <<>>
      ELSE [i \in 1..Len(tipos_hab) |->
              [tipo_habilitacao |-> tipos_hab[i],
               dados |-> tabela_hab(df, df_filtrado, nivel_selecionado, filtros,
                                    tipos_hab[i], loc)]]

\* Steps 7 and 8: one table per qualification of the filtered frame, in
\* order of first appearance, the tables with nothing but header and
\* NATIONAL row left out.
tabelas_hab(df, df_filtrado, nivel_selecionado, filtros, loc) ==
  LET tipos_hab == unique(coluna(df_filtrado, "DS_HABILITACAO"))
      cheia(t) == Len(t.dados) > 2
  IN  IF df_filtrado = <<>> THEN <<>>
      ELSE SelectSeq([i \in 1..Len(tipos_hab) |->
                        [tipo_habilitacao |-> tipos_hab[i],
                         dados |-> tabela_hab(df, df_filtrado, nivel_selecionado, filtros,
                                              tipos_hab[i], loc)]],
                     cheia)

\* Steps 6 to 8 on the processed frame df under the resolved selection.
filtrar_e_agregar_hab(df, mapa_selecao, loc) ==
  tabelas_hab(df, filtrar_hab(df, mapa_selecao.NIVEL_AGREGACAO, mapa_selecao.FILTROS),
              mapa_selecao.NIVEL_AGREGACAO, mapa_selecao.FILTROS, loc)

\* gerar_tabela_cnes_hab for a file in the state estado ("ok", "ausente" or
\* "sem_coluna": an essential column cannot be resolved) holding the rows b.
\* Every exception ends in the empty list.
gerar_tabela_cnes_hab(d, estado, b, loc) ==
  IF estado # "ok" THEN <<>>
  ELSE filtrar_e_agregar_hab(carregar_hab(b), mapear_selecao_geral(d), loc)

-----------------------------------------------------------------------------
(* Services engine: _carregar_base_cnes_srv, gerar_tabela_cnes_srv         *)

\* _carregar_base_cnes_srv: the cached frame when there is one (a cache is
\* <<>> for None and <<df>> when it holds df); otherwise the file is read, and
\* any failure (file absent, column missing) gives None and leaves the cache
\* empty.  The result is both the value returned and the cache afterwards.
_carregar_base_cnes_srv(cache, estado, b) ==
  IF cache # <<>> THEN cache
  ELSE IF estado = "ok" THEN <<carregar_srv(b)>>
  ELSE <<>>

\* The columns whose filter matches by substring.
COLUNAS_CONTAINS == {"NO_MACRO_REG_SAUDE", "NO_REGIAO_SAUDE"}

\* Step 1: every filter entry whose column the frame has is applied,
\* macroregion and health region by substring, the others by equality.
filtrar(df, filtros, colunas) ==
  LET passa(r) ==
        \A c \in DOMAIN filtros \cap colunas :
          IF c \in COLUNAS_CONTAINS THEN contem(r[c], filtros[c]) ELSE r[c] = filtros[c]
  IN  SelectSeq(df, passa)

COLUNAS_SRV ==
  {"NO_UF", "NO_MACRO_REG_SAUDE", "NO_REGIAO_SAUDE", "NO_MUNICIPIO", "DS_TIPO_UNIDADE",
   "NO_SERVICO", "NO_FANTASIA", "NO_REGIAO", "CO_CNES"}

\* DataFrame.drop_duplicates(subset=[col]): the first row of every value.
drop_duplicates(df, col) ==
  NasPosicoes(df, {i \in 1..Len(df) : \A j \in 1..(i - 1) : df[j][col] # df[i][col]})

\* The values of column col in df, sorted: groupby(col).sort_values().unique().
grupos(df, col) == sorted(valores(coluna(df, col)))

\* Facility rows of a municipality, one per facility code.
unidades_srv(df_base_mun, loc) ==
  LET cnes == grupos(df_base_mun, "CO_CNES")
      df_cnes(j) == onde(df_base_mun, "CO_CNES", cnes[j])
  IN  [j \in 1..Len(cnes) |->
         <<" - - - - - CNES",
           descricao_cnes(get_descricao(df_cnes(j)[1].NO_FANTASIA), cnes[j]),
           formatar_populacao(Len(df_cnes(j)), loc)>>]

\* Municipality rows of a health region, each followed by its facilities
\* when the selected level is MUNICIPALITY or deeper.
municipios_srv(df_base_rs, nivel, loc) ==
  LET muns == grupos(df_base_rs, "NO_MUNICIPIO")
      df_base_mun(i) == onde(df_base_rs, "NO_MUNICIPIO", muns[i])
  IN  concat([i \in 1..Len(muns) |->
        <<<<" - - - - MUNICI'PIO", get_descricao(muns[i]),
            formatar_populacao(Len(df_base_mun(i)), loc)>>>>
          \o (IF nivel \in {"MUNICI'PIO", "TIPO_UNIDADE", "CNES"}
              THEN unidades_srv(df_base_mun(i), loc)
              ELSE <<>>)])

\* The walk with cut 3 left out: the municipalities follow every health region.
regioes_saude_srv_sem_corte(df_base_macro, nivel, loc) ==
  LET rss == grupos(df_base_macro, "NO_REGIAO_SAUDE")
      df_base_rs(i) == onde(df_base_macro, "NO_REGIAO_SAUDE", rss[i])
  IN  concat([i \in 1..Len(rss) |->
        <<<<" - - - REGIA~O DE SAU'DE", get_descricao(rss[i]),
            formatar_populacao(Len(df_base_rs(i)), loc)>>>>
          \o municipios_srv(df_base_rs(i), nivel, loc)])

\* Health-region rows of a macroregion; cut 3 stops below them when the
\* selected level is STATE, MACROREGION or HEALTH REGION.
regioes_saude_srv(df_base_macro, nivel, loc) ==
  LET rss == grupos(df_base_macro, "NO_REGIAO_SAUDE")
      df_base_rs(i) == onde(df_base_macro, "NO_REGIAO_SAUDE", rss[i])
  IN  concat([i \in 1..Len(rss) |->
        <<<<" - - - REGIA~O DE SAU'DE", get_descricao(rss[i]),
            formatar_populacao(Len(df_base_rs(i)), loc)>>>>
          \o (IF nivel \in {"UF", "MACRORREGIA~O", "REGIAO_SAUDE"} THEN <<>>
              ELSE municipios_srv(df_base_rs(i), nivel, loc))])

\* Macroregion rows of a state; cut 2 stops below them when the selected
\* level is REGION.
macrorregioes_srv(df_base_uf, nivel, loc) ==
  LET macros == grupos(df_base_uf, "NO_MACRO_REG_SAUDE")
      df_base_macro(i) == onde(df_base_uf, "NO_MACRO_REG_SAUDE", macros[i])
  IN  concat([i \in 1..Len(macros) |->
        <<<<" - - MACRORREGIA~O", get_descricao(macros[i]),
            formatar_populacao(Len(df_base_macro(i)), loc)>>>>
          \o (IF nivel = "REGIAO" THEN <<>>
              ELSE regioes_saude_srv(df_base_macro(i), nivel, loc))])

\* State rows of a region; cut 1 stops below them when the selected level
\* is NATIONAL.
ufs_srv(df_base_regiao, nivel, loc) ==
  LET ufs == grupos(df_base_regiao, "NO_UF")
      df_base_uf(i) == onde(df_base_regiao, "NO_UF", ufs[i])
  IN  concat([i \in 1..Len(ufs) |->
        <<<<" - UF", get_descricao(ufs[i]), formatar_populacao(Len(df_base_uf(i)), loc)>>>>
          \o (IF nivel = "NACIONAL" THEN <<>>
              ELSE macrorregioes_srv(df_base_uf(i), nivel, loc))])

\* Region rows of the frame counted, each followed by its states.
regioes_srv(df_base_contagem, nivel, loc) ==
  LET regioes == grupos(df_base_contagem, "NO_REGIAO")
      df_base_regiao(i) == onde(df_base_contagem, "NO_REGIAO", regioes[i])
  IN  concat([i \in 1..Len(regioes) |->
        <<<<"REGIA~O", get_descricao(regioes[i]),
            formatar_populacao(Len(df_base_regiao(i)), loc)>>>>
          \o ufs_srv(df_base_regiao(i), nivel, loc)])

\* The table of one service: header, NATIONAL row over the whole frame, and
\* the hierarchy of the filtered frame, one row per distinct facility.
tabela_srv(df, df_servico_filtrado, nivel, servico, loc) ==
  <<CABECALHO,
    <<"NACIONAL", BRASIL,
      formatar_populacao(Cardinality(valores(coluna(onde(df, "NO_SERVICO", servico), "CO_CNES"))),
                         loc)>>>>
    \o regioes_srv(drop_duplicates(df_servico_filtrado, "CO_CNES"), nivel, loc)

\* Step 2: one table per service of the filtered frame, the tables with
\* nothing but header and NATIONAL row left out.
tabelas_srv(df, df_trabalho, nivel_selecionado, loc) ==
  LET servicos == grupos(df_trabalho, "NO_SERVICO")
      cheia(t) == Len(t.dados) > 2
  IN  IF df_trabalho = <<>> THEN <<>>
      ELSE SelectSeq([i \in 1..Len(servicos) |->
                        [tipo_habilitacao |-> servicos[i],
                         dados |-> tabela_srv(df, onde(df_trabalho, "NO_SERVICO", servicos[i]),
                                              nivel_selecionado, servicos[i], loc)]],
                     cheia)

\* Steps 1 and 2 on the loaded frame df under the resolved selection.
filtrar_e_agregar_srv(df, mapa_selecao, loc) ==
  tabelas_srv(df, filtrar(df, mapa_selecao.FILTROS, COLUNAS_SRV), mapa_selecao.NIVEL_AGREGACAO, loc)

\* gerar_tabela_cnes_srv on the frame the loader returned (<<>> for None).
gerar_tabela_cnes_srv(d, carregado, loc) ==
  IF carregado = <<>> \/ carregado[1] = <<>> THEN <<>>
  ELSE filtrar_e_agregar_srv(carregado[1], mapear_selecao_geral_2(d), loc)

-----------------------------------------------------------------------------
(* Procedures engine: _carregar_base_sia_oci, gerar_tabela_sia_oci         *)

\* _carregar_base_sia_oci: as _carregar_base_cnes_srv, on the procedures file.
_carregar_base_sia_oci(cache, estado, b) ==
  IF cache # <<>> THEN cache
  ELSE IF estado = "ok" THEN <<carregar_oci(b)>>
  ELSE <<>>

COLUNAS_OCI ==
  {"NO_UF", "NO_MACRO_REG_SAUDE", "NO_REGIAO_SAUDE", "NO_MUNICIPIO", "NO_FANTASIA",
   "NO_SUBGRUPO_PROCED", "TP_REGISTRO", "NO_REGIAO", "CO_CNES", "QUANT_APROV", "VALOR_APROV"}

CABECALHO_OCI == <<"NIVEL", "DESCRIC,A~O", "QUANTIDADE APROVADA", "VALOR APROVADO (R$)">>

RECURSIVE soma(_)
\* Series.sum()
soma(s) == IF s = <<>> THEN 0 ELSE Head(s) + soma(Tail(s))

\* One row of a procedures table: label, description and the two sums over df.
linha_oci_tabela(rotulo, descricao, df, loc) ==
  <<rotulo, descricao,
    formatar_populacao(soma(coluna(df, "QUANT_APROV")), loc),
    formatar_valor_monetario(soma(coluna(df, "VALOR_APROV")), loc)>>

\* Facility rows of one facility code: a row per name the code is stored with.
nomes_unidade_oci(df_cnes, c, loc) ==
  LET fantasias == grupos(df_cnes, "NO_FANTASIA")
  IN  [k \in 1..Len(fantasias) |->
         linha_oci_tabela(" - - - - - CNES", descricao_cnes(get_descricao(fantasias[k]), c),
                          onde(df_cnes, "NO_FANTASIA", fantasias[k]), loc)]

\* Facility rows of a municipality: groupby(['CO_CNES', 'NO_FANTASIA']).
unidades_oci(df_base_mun, loc) ==
  LET cnes == grupos(df_base_mun, "CO_CNES")
  IN  concat([j \in 1..Len(cnes) |->
                nomes_unidade_oci(onde(df_base_mun, "CO_CNES", cnes[j]), cnes[j], loc)])

\* Municipality rows of a health region, each followed by its facilities
\* when the selected level is MUNICIPALITY or deeper.
municipios_oci(df_base_rs, nivel, loc) ==
  LET muns == grupos(df_base_rs, "NO_MUNICIPIO")
      df_base_mun(i) == onde(df_base_rs, "NO_MUNICIPIO", muns[i])
  IN  concat([i \in 1..Len(muns) |->
        <<linha_oci_tabela(" - - - - MUNICI'PIO", get_descricao(muns[i]), df_base_mun(i), loc)>>
          \o (IF nivel \in {"MUNICI'PIO", "TIPO_UNIDADE", "CNES"}
              THEN unidades_oci(df_base_mun(i), loc)
              ELSE <<>>)])

\* Health-region rows of a macroregion; cut 3 stops below them when the
\* selected level is MACROREGION or HEALTH REGION.
regioes_saude_oci(df_base_macro, nivel, loc) ==
  LET rss == grupos(df_base_macro, "NO_REGIAO_SAUDE")
      df_base_rs(i) == onde(df_base_macro, "NO_REGIAO_SAUDE", rss[i])
  IN  concat([i \in 1..Len(rss) |->
        <<linha_oci_tabela(" - - - REGIA~O DE SAU'DE", get_descricao(rss[i]), df_base_rs(i), loc)>>
          \o (IF nivel \in {"MACRORREGIA~O", "REGIAO_SAUDE"} THEN <<>>
              ELSE municipios_oci(df_base_rs(i), nivel, loc))])

\* Macroregion rows of a state; cut 2 stops below them when the selected
\* level is STATE.
macrorregioes_oci(df_base_uf, nivel, loc) ==
  LET macros == grupos(df_base_uf, "NO_MACRO_REG_SAUDE")
      df_base_macro(i) == onde(df_base_uf, "NO_MACRO_REG_SAUDE", macros[i])
  IN  concat([i \in 1..Len(macros) |->
        <<linha_oci_tabela(" - - MACRORREGIA~O", get_descricao(macros[i]), df_base_macro(i), loc)>>
          \o (IF nivel = "UF" THEN <<>>
              ELSE regioes_saude_oci(df_base_macro(i), nivel, loc))])

\* State rows of df_base_regiao; below them the walk goes on unless cortar.
ufs_oci(df_base_regiao, cortar, nivel, loc) ==
  LET ufs == grupos(df_base_regiao, "NO_UF")
      df_base_uf(i) == onde(df_base_regiao, "NO_UF", ufs[i])
  IN  concat([i \in 1..Len(ufs) |->
        <<linha_oci_tabela(" - UF", get_descricao(ufs[i]), df_base_uf(i), loc)>>
          \o (IF cortar THEN <<>>
              ELSE macrorregioes_oci(df_base_uf(i), nivel, loc))])

\* NATIONAL selected: every region of the whole frame with its states.
nacional_oci(df_reg_base, nivel, loc) ==
  LET regioes == grupos(df_reg_base, "NO_REGIAO")
      df_regiao(i) == onde(df_reg_base, "NO_REGIAO", regioes[i])
  IN  concat([i \in 1..Len(regioes) |->
        <<linha_oci_tabela("REGIA~O", get_descricao(regioes[i]), df_regiao(i), loc)>>
          \o ufs_oci(df_regiao(i), TRUE, nivel, loc)])

\* A level below NATIONAL selected: the region row(s) with their true totals,
\* then the walk over the filtered records of the region filtered for, or
\* of the last region the filtered records touch.
detalhe_oci(df_completo, df_base_agregacao, filtros, nivel, loc) ==
  LET regioes_afetadas ==
        IF "NO_REGIAO" \in DOMAIN filtros THEN <<filtros["NO_REGIAO"]>>
        ELSE unique(coluna(df_base_agregacao, "NO_REGIAO"))
  IN  [i \in 1..Len(regioes_afetadas) |->
         linha_oci_tabela("REGIA~O", get_descricao(regioes_afetadas[i]),
                          onde(df_completo, "NO_REGIAO", regioes_afetadas[i]), loc)]
        \o ufs_oci(onde(df_base_agregacao, "NO_REGIAO", regioes_afetadas[Len(regioes_afetadas)]),
                   nivel = "REGIAO", nivel, loc)

\* The table of one procedure subgroup.
tabela_oci(df, df_subgrupo_filtrado, filtros, nivel, subgrupo, loc) ==
  LET df_subgrupo_completo == onde(df, "NO_SUBGRUPO_PROCED", subgrupo)
  IN  <<CABECALHO_OCI, linha_oci_tabela("NACIONAL", BRASIL, df_subgrupo_completo, loc)>>
        \o (IF nivel = "NACIONAL" THEN nacional_oci(df_subgrupo_completo, nivel, loc)
            ELSE detalhe_oci(df_subgrupo_completo, df_subgrupo_filtrado, filtros, nivel, loc))

\* Step 2: one table per procedure subgroup of the filtered frame, the tables
\* with nothing but header and NATIONAL row left out.
tabelas_oci(df, df_trabalho, filtros, nivel_selecionado, loc) ==
  LET subgrupos == grupos(df_trabalho, "NO_SUBGRUPO_PROCED")
      cheia(t) == Len(t.dados) > 2
  IN  IF df_trabalho = <<>> THEN <<>>
      ELSE SelectSeq([i \in 1..Len(subgrupos) |->
                        [subgrupo_procedimento |-> subgrupos[i],
                         dados |-> tabela_oci(df,
                                              onde(df_trabalho, "NO_SUBGRUPO_PROCED", subgrupos[i]),
                                              filtros, nivel_selecionado, subgrupos[i], loc)]],
                     cheia)

\* Steps 1 and 2 on the loaded frame df under the resolved selection.
filtrar_e_agregar_oci(df, mapa_selecao, loc) ==
  tabelas_oci(df, filtrar(df, mapa_selecao.FILTROS, COLUNAS_OCI), mapa_selecao.FILTROS,
              mapa_selecao.NIVEL_AGREGACAO, loc)

\* gerar_tabela_sia_oci on the frame the loader returned (<<>> for None).
gerar_tabela_sia_oci(d, carregado, loc) ==
  IF carregado = <<>> \/ carregado[1] = <<>> THEN <<>>
  ELSE filtrar_e_agregar_oci(carregado[1], mapear_selecao_geral_2(d), loc)

-----------------------------------------------------------------------------
(* Demographic narrative: gerar_descricao_demografica                      *)

\* Rows the population file can hold: region, state, macroregion, health
\* region, municipality and the estimated population as the file stores it.
REGISTROS_IBGE ==
  <<
    [Regiao |-> <<"S", "u", "d", "e", "s", "t", "e">>,
     UF |-> <<"S", "a~", "o", " ", "P", "a", "u", "l", "o">>,
     MACRO |-> <<"0", "0", "3", "5", "-", "R", "R", "A", "S", " ", "5", " ", "L", "e", "s", "t", "e">>,
     RS |-> <<"A", "l", "t", "o", " ", "T", "i", "e", "t", "e^">>,
     MUN |-> <<"S", "u", "z", "a", "n", "o">>,
     POP |-> <<"3", "0", "0", ".", "0", "0", "0">>],
    [Regiao |-> <<"S", "u", "d", "e", "s", "t", "e">>,
     UF |-> <<"S", "a~", "o", " ", "P", "a", "u", "l", "o">>,
     MACRO |-> <<"0", "0", "3", "5", "-", "R", "R", "A", "S", " ", "5", " ", "L", "e", "s", "t", "e">>,
     RS |-> <<"A", "l", "t", "o", " ", "T", "i", "e", "t", "e^">>,
     MUN |-> <<"M", "o", "g", "i">>,
     POP |-> <<"4", "5", "0", "0", "0", "0">>],
    [Regiao |-> <<"N", "o", "r", "d", "e", "s", "t", "e">>,
     UF |-> <<"B", "a", "h", "i", "a">>,
     MACRO |-> <<"S", "u", "l">>,
     RS |-> <<"I", "t", "a", "b", "u", "n", "a">>,
     MUN |-> <<"B", "o", "n", "i", "t", "o">>,
     POP |-> <<"1", "5", ".", "0", "0", "0">>],
    [Regiao |-> <<"N", "o", "r", "t", "e">>,
     UF |-> <<"P", "a", "r", "a'">>,
     MACRO |-> <<"S", "u", "l">>,
     RS |-> <<"C", "a", "e", "t", "e'", "s">>,
     MUN |-> <<"B", "o", "n", "i", "t", "o">>,
     POP |-> <<"n", "/", "d">>],
    [Regiao |-> <<"N", "o", "r", "d", "e", "s", "t", "e">>,
     UF |-> <<"B", "a", "h", "i", "a">>,
     MACRO |-> <<"S", "u", "l">>,
     RS |-> <<"I", "t", "a", "b", "u", "n", "a">>,
     MUN |-> <<"I", "l", "h", "e'", "u", "s">>,
     POP |-> <<"1", "6", "0", ".", "0", "0", "0">>]>>

RECURSIVE remove(_, _)
\* s.replace(sub, ''): every occurrence of sub taken out, left to right.
remove(s, sub) ==
  IF sub = Vazio \/ Len(s) < Len(sub) THEN s
  ELSE IF SubSeq(s, 1, Len(sub)) = sub THEN remove(SubSeq(s, Len(sub) + 1, Len(s)), sub)
  ELSE <<Head(s)>> \o remove(Tail(s), sub)

RECURSIVE valor_decimal(_)
\* The number a string of digits reads as.
valor_decimal(s) ==
  IF s = Vazio THEN 0
  ELSE 10 * valor_decimal(SubSeq(s, 1, Len(s) - 1)) + (ord(s[Len(s)]) - ord("0"))

\* Step 3: the population column as text, the dots taken out, then
\* pd.to_numeric(errors='coerce'): <<n>> for the number n, <<>> for NaN.
\* (No stored population has a decimal comma.)
populacao_numerica(s) ==
  LET t == remove(s, <<".">>)
  IN  IF isdigit(t) THEN <<valor_decimal(t)>> ELSE <<>>

\* One row of the population file after steps 2 and 3.
linha_ibge(r) ==
  [Regiao_do_Pais |-> padronizar_nome_geografico(r.Regiao),
   UF |-> padronizar_nome_geografico(r.UF),
   Macrorregiao_de_Saude |-> padronizar_nome_geografico(r.MACRO),
   Regiao_de_Saude |-> padronizar_nome_geografico(r.RS),
   Municipio |-> padronizar_nome_geografico(r.MUN),
   Populacao |-> populacao_numerica(r.POP)]

LINHAS_IBGE == [i \in 1..Len(REGISTROS_IBGE) |-> linha_ibge(REGISTROS_IBGE[i])]

\* The population frame for a file holding the rows b.
carregar_ibge(b) ==
  LET p == b \cap (1..Len(REGISTROS_IBGE))
  IN  [k \in 1..Cardinality(p) |-> LINHAS_IBGE[EmOrdem(p)[k]]]

MAP_FILTRO_CNES_IBGE ==
  [NO_REGIAO |-> "Regiao_do_Pais", NO_UF |-> "UF", NO_MACRO_REG_SAUDE |-> "Macrorregiao_de_Saude",
   NO_REGIAO_SAUDE |-> "Regiao_de_Saude", NO_MUNICIPIO |-> "Municipio"]

N_A == <<"N", "/", "A">>

ESTABELECIMENTO_DE_SAUDE == <<"E", "s", "t", "a", "b", "e", "l", "e", "c", "i", "m", "e", "n", "t", "o", " ", "D", "e", " ", "S", "a", "u'", "d", "e">>

\* The texts returned when no description can be made, each a one-cell tuple
\* holding the message (ERRO_ARQUIVO is followed by the path, ERRO_CARREGAR by
\* the error's text).
ERRO_ARQUIVO == <<"Erro: Arquivo de dados demograficos do IBGE nao encontrado.">>

ERRO_CARREGAR == <<"Erro ao carregar o arquivo de dados demograficos">>

ERRO_COLUNA == <<"Erro: Coluna de populacao nao encontrada no arquivo IBGE.">>

DADOS_INCOMPLETOS ==
  <<"Nao foi possivel gerar a descricao demografica para o Nivel Unidade/CNES devido a dados incompletos ou mal formatados.">>

SEM_DESCRICAO == <<"Nao foi possivel gerar a descricao demografica com os dados fornecidos.">>

\* The part of a string after its last hyphen: s.split('-')[-1].
apos_ultimo_hifen(s) ==
  LET H == {i \in 1..Len(s) : s[i] = "-"}
  IN  IF H = {} THEN s ELSE SubSeq(s, Max(H) + 1, Len(s))

\* The facility levels: the text is made from the selection alone.
descricao_unidade(d) ==
  LET nome_unidade_raw == get_ou(d, "unidade", Vazio)
      cnes_code_raw == get_ou(d, "cnes", Vazio)
      cnes_code_from_unidade == strip(apos_ultimo_hifen(nome_unidade_raw))
      cnes_code == IF cnes_code_raw = Vazio \/ cnes_code_raw = TODOS
                   THEN IF isdigit(cnes_code_from_unidade) THEN cnes_code_from_unidade
                        ELSE cnes_code_raw
                   ELSE cnes_code_raw
      nome_municipio_original == get_ou(d, "municipio", N_A)
      nome_uf_original == get_ou(d, "uf", N_A)
      nome_fantasia_final ==
        get_descricao(strip(remove(remove(nome_unidade_raw, cnes_code), <<"-">>)))
  IN  IF nome_fantasia_final # ESTABELECIMENTO_DE_SAUDE /\ cnes_code # Vazio /\ cnes_code # TODOS
      THEN <<"O estabelecimento de saude", nome_fantasia_final, cnes_code,
             title(nome_municipio_original), title(nome_uf_original)>>
      ELSE DADOS_INCOMPLETOS

\* The check of the population column left out.
falta_coluna_nunca(estado) == FALSE

\* COLUNA_POP_ESTIMADA not in df.columns
falta_coluna_populacao(estado) == estado = "sem_coluna"

\* Every filter of the selection applied at every level.
descricao_populacao_todos_filtros(d, estado, df, nivel_agregacao, filtros, loc) ==
  LET filtros_a_aplicar ==
        filtros
      mascara(r) ==
        \A c \in DOMAIN filtros_a_aplicar \cap DOMAIN MAP_FILTRO_CNES_IBGE :
          IF /\ c \in {"NO_MACRO_REG_SAUDE", "NO_REGIAO_SAUDE"}
             /\ nivel_agregacao \in {"MACRORREGIAO", "REGIAO_SAUDE"}
          THEN contem(r[MAP_FILTRO_CNES_IBGE[c]], filtros_a_aplicar[c])
          ELSE r[MAP_FILTRO_CNES_IBGE[c]] = filtros_a_aplicar[c]
      df_trabalho == SelectSeq(df, mascara)
      nunique(f, c) == digitos(Cardinality(valores(coluna(f, c))))
      pop_total == soma([i \in 1..Len(df_trabalho) |-> to_numeric(df_trabalho[i].Populacao)])
      pop_formatada == formatar_populacao(pop_total, loc)
      macro_display_name == get_descricao(df_trabalho[1].Macrorregiao_de_Saude)
      regiao_display_name == get_descricao(df_trabalho[1].Regiao_de_Saude)
  IN  IF df_trabalho = <<>>
      THEN <<"Nao foram encontrados dados demograficos para a selecao", nivel_agregacao, filtros>>
      \* df_trabalho[COLUNA_POP_ESTIMADA] raises KeyError when the column is not there
      ELSE IF estado = "sem_coluna" THEN EXCECAO
      ELSE IF nivel_agregacao = "NACIONAL"
      THEN <<"O Brasil", nunique(df, "Macrorregiao_de_Saude"), nunique(df, "Regiao_de_Saude"),
             pop_formatada>>
      ELSE IF nivel_agregacao = "REGIAO"
      THEN <<"A regiao", title(get_ou(d, "regiao", N_A)), nunique(df_trabalho, "UF"),
             nunique(df_trabalho, "Municipio"), nunique(df_trabalho, "Macrorregiao_de_Saude"),
             nunique(df_trabalho, "Regiao_de_Saude"), pop_formatada>>
      ELSE IF nivel_agregacao = "UF"
      THEN <<"O estado de", title(get_ou(d, "uf", N_A)), nunique(df_trabalho, "Municipio"),
             nunique(df_trabalho, "Macrorregiao_de_Saude"), nunique(df_trabalho, "Regiao_de_Saude"),
             pop_formatada>>
      ELSE IF nivel_agregacao = "MACRORREGIAO"
      THEN <<"A Macrorregiao de Saude", macro_display_name, title(get_ou(d, "uf", N_A)),
             nunique(df_trabalho, "Municipio"), nunique(df_trabalho, "Regiao_de_Saude"),
             pop_formatada>>
      ELSE IF nivel_agregacao = "REGIAO_SAUDE"
      THEN <<"A Regiao de Saude", regiao_display_name, macro_display_name,
             title(df_trabalho[1].UF), nunique(df_trabalho, "Municipio"), pop_formatada>>
      ELSE IF nivel_agregacao = "MUNICIPIO"
      THEN <<"O municipio de", title(get_ou(d, "municipio", N_A)), title(get_ou(d, "uf", N_A)),
             macro_display_name, regiao_display_name, pop_formatada>>
      ELSE SEM_DESCRICAO

\* Steps 4 to 6 on the loaded population frame df.
descricao_populacao(d, estado, df, nivel_agregacao, filtros, loc) ==
  LET filtros_a_aplicar ==
        IF nivel_agregacao = "MUNICIPIO"
        THEN [c \in DOMAIN filtros \cap {"NO_UF", "NO_MUNICIPIO"} |-> filtros[c]]
        ELSE filtros
      mascara(r) ==
        \A c \in DOMAIN filtros_a_aplicar \cap DOMAIN MAP_FILTRO_CNES_IBGE :
          IF /\ c \in {"NO_MACRO_REG_SAUDE", "NO_REGIAO_SAUDE"}
             /\ nivel_agregacao \in {"MACRORREGIAO", "REGIAO_SAUDE"}
          THEN contem(r[MAP_FILTRO_CNES_IBGE[c]], filtros_a_aplicar[c])
          ELSE r[MAP_FILTRO_CNES_IBGE[c]] = filtros_a_aplicar[c]
      df_trabalho == SelectSeq(df, mascara)
      nunique(f, c) == digitos(Cardinality(valores(coluna(f, c))))
      pop_total == soma([i \in 1..Len(df_trabalho) |-> to_numeric(df_trabalho[i].Populacao)])
      pop_formatada == formatar_populacao(pop_total, loc)
      macro_display_name == get_descricao(df_trabalho[1].Macrorregiao_de_Saude)
      regiao_display_name == get_descricao(df_trabalho[1].Regiao_de_Saude)
  IN  IF df_trabalho = <<>>
      THEN <<"Nao foram encontrados dados demograficos para a selecao", nivel_agregacao, filtros>>
      \* df_trabalho[COLUNA_POP_ESTIMADA] raises KeyError when the column is not there
      ELSE IF estado = "sem_coluna" THEN EXCECAO
      ELSE IF nivel_agregacao = "NACIONAL"
      THEN <<"O Brasil", nunique(df, "Macrorregiao_de_Saude"), nunique(df, "Regiao_de_Saude"),
             pop_formatada>>
      ELSE IF nivel_agregacao = "REGIAO"
      THEN <<"A regiao", title(get_ou(d, "regiao", N_A)), nunique(df_trabalho, "UF"),
             nunique(df_trabalho, "Municipio"), nunique(df_trabalho, "Macrorregiao_de_Saude"),
             nunique(df_trabalho, "Regiao_de_Saude"), pop_formatada>>
      ELSE IF nivel_agregacao = "UF"
      THEN <<"O estado de", title(get_ou(d, "uf", N_A)), nunique(df_trabalho, "Municipio"),
             nunique(df_trabalho, "Macrorregiao_de_Saude"), nunique(df_trabalho, "Regiao_de_Saude"),
             pop_formatada>>
      ELSE IF nivel_agregacao = "MACRORREGIAO"
      THEN <<"A Macrorregiao de Saude", macro_display_name, title(get_ou(d, "uf", N_A)),
             nunique(df_trabalho, "Municipio"), nunique(df_trabalho, "Regiao_de_Saude"),
             pop_formatada>>
      ELSE IF nivel_agregacao = "REGIAO_SAUDE"
      THEN <<"A Regiao de Saude", regiao_display_name, macro_display_name,
             title(df_trabalho[1].UF), nunique(df_trabalho, "Municipio"), pop_formatada>>
      ELSE IF nivel_agregacao = "MUNICIPIO"
      THEN <<"O municipio de", title(get_ou(d, "municipio", N_A)), title(get_ou(d, "uf", N_A)),
             macro_display_name, regiao_display_name, pop_formatada>>
      ELSE SEM_DESCRICAO

\* gerar_descricao_demografica for a population file in the state estado
\* ("ok", "ausente", "ilegivel": it cannot be read, or "sem_coluna": it has no
\* population column) holding the rows b.  The result is the text, as the
\* tuple of its fixed opening and the values put into it, or EXCECAO.
gerar_descricao_demografica(d, estado, b, loc) ==
  LET mapa_selecao == mapear_selecao_geral(d)
      nivel_agregacao == mapa_selecao.NIVEL_AGREGACAO
      filtros == mapa_selecao.FILTROS
  IN  IF nivel_agregacao \in {"TIPO_UNIDADE", "CNES"} THEN descricao_unidade(d)
      ELSE IF estado = "ausente" THEN ERRO_ARQUIVO
      ELSE IF estado = "ilegivel" THEN ERRO_CARREGAR
      ELSE IF falta_coluna_populacao(estado) THEN ERRO_COLUNA
      ELSE descricao_populacao(d, estado, carregar_ibge(b), nivel_agregacao, filtros, loc)

-----------------------------------------------------------------------------
(* The resolver on its own: any selection the front end can send            *)

\* Raw values a key can carry besides being absent: empty, the sentinel in
\* two spellings, punctuation only, and a concrete name of that level.
ValorConcreto ==
  [c \in Chaves |->
     CASE c = "regiao" -> <<"S", "u", "l">>
       [] c = "uf" -> <<"P", "a", "r", "a'">>
       [] c = "macro" -> <<"0", "0", "1", "-", "M", "1">>
       [] c = "regiaoSaude" -> <<"R", "S", " ", "2">>
       [] c = "municipio" -> <<"B", "e", "l", "e'", "m">>
       [] c = "unidade" -> <<"U", "P", "A">>
       [] c = "cnes" -> <<"1", "2", "3", "-", "4">>]

ValoresBrutos(c) ==
  {ValorConcreto[c]}
    \cup (IF c \in {"regiao", "uf", "unidade", "cnes"} THEN {Vazio} ELSE {})
    \cup (IF c \in {"regiao", "macro", "municipio", "cnes"} THEN {TODOS} ELSE {})
    \cup (IF c \in {"uf", "regiaoSaude"}
          THEN {<<"t", "o", "d", "o", "s", " ">>} ELSE {})
    \cup (IF c \in {"regiao", "municipio", "cnes"} THEN {<<"-">>} ELSE {})

Ausente == <<"ausente">>

\* What the front end may put under a key; Ausente stands for a missing key.
Opcoes(c) == ValoresBrutos(c) \cup {Ausente}

\* The dict with the keys whose choice is not Ausente.
Selecao(f) == [c \in {k \in DOMAIN f : f[k] # Ausente} |-> f[c]]

\* Every selection the front end can send over these values.
EscolhasSel ==
  {<<r, u, m, s, n, t, e>> : r \in Opcoes("regiao"), u \in Opcoes("uf"),
     m \in Opcoes("macro"), s \in Opcoes("regiaoSaude"),
     n \in Opcoes("municipio"), t \in Opcoes("unidade"), e \in Opcoes("cnes")}

DeEscolha(x) ==
  Selecao([c \in Chaves |->
     CASE c = "regiao" -> x[1] [] c = "uf" -> x[2] [] c = "macro" -> x[3]
       [] c = "regiaoSaude" -> x[4] [] c = "municipio" -> x[5]
       [] c = "unidade" -> x[6] [] c = "cnes" -> x[7]])

\* The backing files: qualifications, services, procedures, population.
Arquivos == {"cnes_hab", "cnes_srv", "sia_oci", "ibge"}

InitSel ==
  /\ dados_selecao = DictVazio
  /\ op = "ocioso"
  /\ ret = Nulo
  /\ arq = [a \in Arquivos |-> "ok"]
  /\ base = {}
  /\ localidade = "C"
  /\ cache_srv = <<>>
  /\ cache_oci = <<>>
  /\ entrada = Nulo
  /\ chamadas = SemChamadas

\* A call of mapear_selecao_geral of processing_geral.py.
MapearSelecaoGeral ==
  /\ op = "ocioso"
  /\ \E x \in EscolhasSel :
       /\ dados_selecao' = DeEscolha(x)
       /\ op' = "mapear"
       /\ ret' = mapear_selecao_geral(DeEscolha(x))
  /\ UNCHANGED <<chamadas, entrada, arq, base, localidade, cache_srv, cache_oci>>

\* A call of mapear_selecao_geral of processing_geral_2.py.
MapearSelecaoGeral2 ==
  /\ op = "ocioso"
  /\ \E x \in EscolhasSel :
       /\ dados_selecao' = DeEscolha(x)
       /\ op' = "mapear_2"
       /\ ret' = mapear_selecao_geral_2(DeEscolha(x))
  /\ UNCHANGED <<chamadas, entrada, arq, base, localidade, cache_srv, cache_oci>>

\* The caller has taken the result; the process waits for the next request.
Retorna ==
  /\ op # "ocioso"
  /\ dados_selecao' = DictVazio
  /\ op' = "ocioso"
  /\ ret' = Nulo
  /\ UNCHANGED <<chamadas, entrada, arq, base, localidade, cache_srv, cache_oci>>

NextSel == MapearSelecaoGeral \/ MapearSelecaoGeral2 \/ Retorna

SpecSel == InitSel /\ [][NextSel]_vars

-----------------------------------------------------------------------------
(* The three engines over loaded files                                     *)

\* The names the front end offers for the keys of a request.
ValoresMotor ==
  [c \in Chaves |->
     CASE c = "regiao" -> {<<"N", "o", "r", "d", "e", "s", "t", "e">>}
       [] c = "uf" -> {<<"B", "a", "h", "i", "a">>, <<"S", "a~", "o", " ", "P", "a", "u", "l", "o">>}
       [] c = "macro" -> {<<"R", "R", "A", "S", " ", "5">>}
       [] c = "regiaoSaude" -> {<<"T", "i", "e", "t", "e^">>}
       [] c = "municipio" -> {<<"B", "o", "n", "i", "t", "o">>, <<"S", "u", "z", "a", "n", "o">>}
       [] c = "unidade" -> {<<"H", "o", "s", "p", "i", "t", "a", "l">>}
       [] c = "cnes" -> {<<"2", "0", "8", "0", "0", "0", "1">>}]

\* A request fills at most this many keys.
MaxPreenchidas == 2

OpcoesMotor(c) == ValoresMotor[c] \cup {Ausente}

\* The requests: a choice per key, Ausente for a key left out.
Escolhas ==
  {x \in {<<r, u, m, s, n, t, e>> : r \in OpcoesMotor("regiao"), u \in OpcoesMotor("uf"),
            m \in OpcoesMotor("macro"), s \in OpcoesMotor("regiaoSaude"),
            n \in OpcoesMotor("municipio"), t \in OpcoesMotor("unidade"),
            e \in OpcoesMotor("cnes")} :
     Cardinality({i \in 1..7 : x[i] # Ausente}) <= MaxPreenchidas}

\* The process has started: the files are in place with some content, the
\* locale is whatever the start-up sequence could set, nothing is cached.
Init ==
  /\ dados_selecao = DictVazio
  /\ op = "ocioso"
  /\ ret = Nulo
  /\ arq = [a \in Arquivos |-> "ok"]
  /\ base \in Bases
  /\ localidade \in Localidades
  /\ cache_srv = <<>>
  /\ cache_oci = <<>>
  /\ entrada = Nulo
  /\ chamadas = SemChamadas

\* A call of gerar_tabela_cnes_hab.
GerarTabelaCnesHab ==
  /\ op = "ocioso"
  /\ \E x \in Escolhas :
       /\ dados_selecao' = DeEscolha(x)
       /\ op' = "hab"
       /\ ret' = gerar_tabela_cnes_hab(DeEscolha(x), arq["cnes_hab"], base, localidade)
  /\ UNCHANGED <<chamadas, entrada, arq, base, localidade, cache_srv, cache_oci>>

\* A call that filters the cached frame itself rather than a copy of it.
GerarTabelaCnesSrvSemCopia ==
  /\ op = "ocioso"
  /\ \E x \in Escolhas :
       LET carregado == _carregar_base_cnes_srv(cache_srv, arq["cnes_srv"], base)
       IN  /\ dados_selecao' = DeEscolha(x)
           /\ op' = "srv"
           /\ ret' = gerar_tabela_cnes_srv(DeEscolha(x), carregado, localidade)
           /\ cache_srv' = IF carregado = <<>> THEN <<>>
                           ELSE <<filtrar(carregado[1], mapear_selecao_geral_2(DeEscolha(x)).FILTROS,
                                          COLUNAS_SRV)>>
  /\ UNCHANGED <<chamadas, entrada, arq, base, localidade, cache_oci>>

\* A call of gerar_tabela_cnes_srv, its loader included.
GerarTabelaCnesSrv ==
  /\ op = "ocioso"
  /\ cache_srv' = _carregar_base_cnes_srv(cache_srv, arq["cnes_srv"], base)
  /\ \E x \in Escolhas :
       /\ dados_selecao' = DeEscolha(x)
       /\ op' = "srv"
       /\ ret' = gerar_tabela_cnes_srv(DeEscolha(x), cache_srv', localidade)
  /\ UNCHANGED <<chamadas, entrada, arq, base, localidade, cache_oci>>

\* A call of gerar_tabela_sia_oci, its loader included.
GerarTabelaSiaOci ==
  /\ op = "ocioso"
  /\ cache_oci' = _carregar_base_sia_oci(cache_oci, arq["sia_oci"], base)
  /\ \E x \in Escolhas :
       /\ dados_selecao' = DeEscolha(x)
       /\ op' = "oci"
       /\ ret' = gerar_tabela_sia_oci(DeEscolha(x), cache_oci', localidade)
  /\ UNCHANGED <<chamadas, entrada, arq, base, localidade, cache_srv>>

Next == GerarTabelaCnesHab \/ GerarTabelaCnesSrv \/ GerarTabelaSiaOci \/ Retorna

Spec == Init /\ [][Next]_vars

-----------------------------------------------------------------------------
(* The engines and the narrative over files that may be missing            *)

\* What can be found at a file's path: the file as expected, nothing, a file
\* that cannot be read, or a file without a required column.
EstadosArquivo == {"ok", "ausente", "ilegivel", "sem_coluna"}

\* The files hold at most one row here.
BasesArq == {b \in Bases : Cardinality(b) <= MaxRegistrosArq}

\* The process has started over files of which at most one is not as
\* expected; the files do not change while it runs.
InitArq ==
  /\ dados_selecao = DictVazio
  /\ op = "ocioso"
  /\ ret = Nulo
  /\ arq \in {f \in [Arquivos -> EstadosArquivo] : Cardinality({a \in Arquivos : f[a] # "ok"}) <= 1}
  /\ base \in BasesArq
  /\ localidade \in Localidades
  /\ cache_srv = <<>>
  /\ cache_oci = <<>>
  /\ entrada = Nulo
  /\ chamadas = SemChamadas

\* A call of gerar_descricao_demografica.
GerarDescricaoDemografica ==
  /\ op = "ocioso"
  /\ \E x \in Escolhas :
       /\ dados_selecao' = DeEscolha(x)
       /\ op' = "descricao"
       /\ ret' = gerar_descricao_demografica(DeEscolha(x), arq["ibge"], base, localidade)
  /\ UNCHANGED <<chamadas, entrada, arq, base, localidade, cache_srv, cache_oci>>

NextArq ==
  \/ GerarTabelaCnesHab
  \/ GerarTabelaCnesSrv
  \/ GerarTabelaSiaOci
  \/ GerarDescricaoDemografica
  \/ Retorna

SpecArq == InitArq /\ [][NextArq]_vars

-----------------------------------------------------------------------------
(* Claims on the resolver                                                  *)

\* The key's raw value is non-empty and does not normalize to the sentinel.
Qualifica(d, c) ==
  /\ c \in DOMAIN d
  /\ d[c] # Vazio
  /\ padronizar_nome_geografico(d[c]) # TODOS

Qualificadas(H, d) == {i \in 1..Len(H) : Qualifica(d, H[i][1])}

HierarquiaDe(o) == IF o = "mapear_2" THEN HIERARQUIA_2 ELSE HIERARQUIA

\* C1: for every raw selection, NIVEL_AGREGACAO is the level of the last key of
\* the hierarchy whose raw value is non-empty and whose normalized form is not
\* TODOS, whatever the less specific keys hold, and NACIONAL when there is none.
C1_NivelMaisEspecifico ==
  op \in {"mapear", "mapear_2"} =>
    LET H == HierarquiaDe(op)
        Q == Qualificadas(H, dados_selecao)
    IN  ret.NIVEL_AGREGACAO = IF Q = {} THEN "NACIONAL" ELSE H[Max(Q)][2]

\* A region and a municipality are both populated, the more specific keys are
\* the sentinel or absent, and the municipality level is returned.
C1_Witness ==
  /\ op = "mapear"
  /\ Qualifica(dados_selecao, "regiao")
  /\ Qualifica(dados_selecao, "municipio")
  /\ get(dados_selecao, "cnes") = TODOS
  /\ ~Qualifica(dados_selecao, "unidade")
  /\ ret.NIVEL_AGREGACAO = "MUNICIPIO"

\* C2: FILTROS has an entry for a level's column exactly when the level's raw
\* value is present and does not normalize to TODOS; the entry is the normalized
\* value, except CO_CNES, which holds the raw value.
C2_FiltrosPorNivel ==
  op \in {"mapear", "mapear_2"} =>
    LET H == HierarquiaDe(op)
        Q == Qualificadas(H, dados_selecao)
        f == ret.FILTROS
    IN  /\ DOMAIN f = {H[i][3] : i \in Q}
        /\ \A i \in Q :
             f[H[i][3]] = IF H[i][1] = "cnes"
                          THEN dados_selecao["cnes"]
                          ELSE padronizar_nome_geografico(dados_selecao[H[i][1]])

\* A facility code that normalization would change is stored as sent, next to
\* a state name that is stored normalized.
C2_Witness ==
  /\ op = "mapear_2"
  /\ DOMAIN ret.FILTROS = {"NO_UF", "CO_CNES"}
  /\ ret.FILTROS["CO_CNES"] = <<"1", "2", "3", "-", "4">>
  /\ padronizar_nome_geografico(ret.FILTROS["CO_CNES"]) = <<"4">>
  /\ dados_selecao["uf"] = <<"P", "a", "r", "a'">>
  /\ ret.FILTROS["NO_UF"] = <<"P", "A", "R", "A">>

-----------------------------------------------------------------------------
(* Claims on the engines                                                   *)

Motores == {"hab", "srv", "oci"}

\* The processed data set an engine works on, for the files as they are.
Dados(o) ==
  IF o = "hab" THEN carregar_hab(base)
  ELSE IF o = "srv" THEN carregar_srv(base)
  ELSE carregar_oci(base)

\* The column holding an engine's grouping value.
ColunaGrupo(o) ==
  IF o = "hab" THEN "DS_HABILITACAO"
  ELSE IF o = "srv" THEN "NO_SERVICO"
  ELSE "NO_SUBGRUPO_PROCED"

\* The grouping value a table is for.
GrupoDaTabela(o, t) == IF o = "oci" THEN t.subgrupo_procedimento ELSE t.tipo_habilitacao

\* An engine's metric over a set of records, as the cells after the
\* description: record count, distinct facility count, or the two sums.
Metrica(o, rs) ==
  IF o = "hab" THEN <<formatar_populacao(Len(rs), localidade)>>
  ELSE IF o = "srv"
  THEN <<formatar_populacao(Cardinality({rs[i].CO_CNES : i \in 1..Len(rs)}), localidade)>>
  ELSE <<formatar_populacao(soma([i \in 1..Len(rs) |-> rs[i].QUANT_APROV]), localidade),
         formatar_valor_monetario(soma([i \in 1..Len(rs) |-> rs[i].VALOR_APROV]), localidade)>>

\* The cells of a row after its label and description.
Celulas(linha) == SubSeq(linha, 3, Len(linha))

\* The records of the whole data set that carry the grouping value g.
DoGrupo(o, g) ==
  LET e_do_grupo(r) == r[ColunaGrupo(o)] = g
  IN  SelectSeq(Dados(o), e_do_grupo)

\* C3: in every table an engine emits, the NATIONAL row carries the metric over
\* the whole unfiltered data set restricted to the table's grouping value,
\* whatever the geographic selection.
C3_LinhaNacionalSemFiltro ==
  op \in Motores =>
    \A k \in 1..Len(ret) :
      /\ ret[k].dados[2][1] = "NACIONAL"
      /\ Celulas(ret[k].dados[2]) = Metrica(op, DoGrupo(op, GrupoDaTabela(op, ret[k])))

\* A selection narrows the data (the first region row shows less than the
\* NATIONAL row) and a table is emitted all the same.
C3_Witness ==
  /\ op \in Motores
  /\ dados_selecao # DictVazio
  /\ ret # <<>>
  /\ Celulas(ret[1].dados[3]) # Celulas(ret[1].dados[2])

\* The depth of a row's level in the hierarchy Region > State > Macroregion >
\* Health Region > Municipality > Facility Type > Facility, read off its label;
\* the NATIONAL row is at depth 0.
Profundidade(rotulo) ==
  CASE rotulo = "NACIONAL" -> 0
    [] rotulo = "REGIA~O" -> 1
    [] rotulo \in {"UF", " - UF"} -> 2
    [] rotulo \in {"MACRORREGIA~O", " - MACRORREGIA~O", " - - MACRORREGIA~O"} -> 3
    [] rotulo \in {"REGIA~O DE SAUDE", " - REGIA~O DE SAUDE", " - - - REGIA~O DE SAU'DE"} -> 4
    [] rotulo \in {"MUNICIPIO", " - MUNICIPIO", " - - - - MUNICI'PIO"} -> 5
    [] rotulo \in {"TIPO_UNIDADE", " - TIPO_UNIDADE"} -> 6
    [] rotulo \in {" - CNES", " - - CNES", " - - - - - CNES"} -> 7

\* The depth of the selected level: that of the last qualifying key, 0 for none.
ProfundidadeSelecionada ==
  LET Q == Qualificadas(HIERARQUIA, dados_selecao)
  IN  IF Q = {} THEN 0 ELSE Max(Q)

\* The name an engine shows for the node of record r at depth p.
NomeExibido(o, r, p) ==
  IF o = "hab"
  THEN CASE p = 0 -> BRASIL
         [] p = 1 -> title(regiao_da_uf(r.NO_UF, NAO_IDENTIFICADA))
         [] p = 2 -> title(r.NO_UF)
         [] p = 3 -> get_descricao(r.NO_MACRO_REG_SAUDE)
         [] p = 4 -> get_descricao(r.NO_REGIAO_SAUDE)
         [] p = 5 -> title(r.NO_MUNICIPIO)
         [] p = 6 -> title(r.DS_TIPO_UNIDADE)
         [] p = 7 -> descricao_cnes(get_descricao(r.NO_FANTASIA), r.CO_CNES)
  ELSE CASE p = 0 -> BRASIL
         [] p = 1 -> get_descricao(r.NO_REGIAO)
         [] p = 2 -> get_descricao(r.NO_UF)
         [] p = 3 -> get_descricao(r.NO_MACRO_REG_SAUDE)
         [] p = 4 -> get_descricao(r.NO_REGIAO_SAUDE)
         [] p = 5 -> get_descricao(r.NO_MUNICIPIO)
         [] p = 7 -> descricao_cnes(get_descricao(r.NO_FANTASIA), r.CO_CNES)

\* The row of depth q that row k of a table hangs under: the nearest row
\* before k at depth q with only deeper rows in between (a set of at most one).
Ancestral(linhas, k, q) ==
  {j \in 2..(k - 1) :
     /\ Profundidade(linhas[j][1]) = q
     /\ \A i \in (j + 1)..(k - 1) : Profundidade(linhas[i][1]) > q}

\* Record r belongs to the node of row k: it carries the row's value and the
\* value of every row the row hangs under.
SobNo(o, r, linhas, k) ==
  LET p == Profundidade(linhas[k][1])
  IN  /\ NomeExibido(o, r, p) = linhas[k][2]
      /\ \A q \in 1..(p - 1) :
           \A j \in Ancestral(linhas, k, q) : NomeExibido(o, r, q) = linhas[j][2]

\* Record r matches every entry of the filter set the selection resolves to:
\* macroregion and health region by containment, the other levels by
\* equality, the region through the state's region; a level the data set has
\* no column for matches every record.
CasaFiltros(o, r) ==
  \A i \in Qualificadas(HIERARQUIA, dados_selecao) :
    LET c == HIERARQUIA[i][1]
        v == padronizar_nome_geografico(dados_selecao[c])
    IN  CASE c = "regiao" -> regiao_padronizada(r.NO_UF) = v
          [] c = "uf" -> r.NO_UF = v
          [] c = "macro" -> contem(r.NO_MACRO_REG_SAUDE, v)
          [] c = "regiaoSaude" -> contem(r.NO_REGIAO_SAUDE, v)
          [] c = "municipio" -> r.NO_MUNICIPIO = v
          [] c = "unidade" -> ("DS_TIPO_UNIDADE" \in DOMAIN r => r.DS_TIPO_UNIDADE = v)
          [] c = "cnes" -> r.CO_CNES = dados_selecao[c]

\* The records row k of table t should count: those of the table's grouping
\* value under the row's node, narrowed by the filters when the row is at or
\* below the selected level.
RegistrosDaLinha(o, t, k) ==
  LET conta(r) ==
        /\ SobNo(o, r, t.dados, k)
        /\ Profundidade(t.dados[k][1]) >= ProfundidadeSelecionada => CasaFiltros(o, r)
  IN  SelectSeq(DoGrupo(o, GrupoDaTabela(o, t)), conta)

\* C4: in every emitted table, a row above the selected level carries the
\* metric over the unfiltered data set restricted to the grouping value, the
\* row's node and the node's ancestry, and a row at or below the selected level
\* carries the metric over the filtered records of its node.
C4_TotaisVerdadeirosAcima ==
  op \in Motores =>
    \A n \in 1..Len(ret) :
      \A k \in 2..Len(ret[n].dados) :
        Celulas(ret[n].dados[k]) = Metrica(op, RegistrosDaLinha(op, ret[n], k))

C6_TodosOsFiltros ==
  op \in Motores =>
    \A n \in 1..Len(ret) :
      \A k \in 2..Len(ret[n].dados) :
        Profundidade(ret[n].dados[k][1]) >= ProfundidadeSelecionada =>
          Celulas(ret[n].dados[k]) = Metrica(op, RegistrosDaLinha(op, ret[n], k))

\* The column of the data set that the level at depth p filters on.
ColunaDoNivel(p) == HIERARQUIA[p][3]

\* The normalized value the selection holds for the level at depth p.
ValorDoNivel(p) == padronizar_nome_geografico(dados_selecao[HIERARQUIA[p][1]])

\* C7: in each engine a macroregion or health-region filter keeps every record
\* whose stored name contains the filter value (such a record is shown in a
\* row of the selected level of its group's table), whereas a state or
\* municipality filter keeps only records whose stored name equals it (every
\* row of the selected level is the node of such a record).
C7_ContemOuIgual ==
  op \in Motores =>
    LET p == ProfundidadeSelecionada
    IN  /\ p \in {3, 4} =>
             \A i \in 1..Len(Dados(op)) :
               CasaFiltros(op, Dados(op)[i]) =>
                 \E n \in 1..Len(ret) :
                   /\ GrupoDaTabela(op, ret[n]) = Dados(op)[i][ColunaGrupo(op)]
                   /\ \E k \in 3..Len(ret[n].dados) :
                        /\ Profundidade(ret[n].dados[k][1]) = p
                        /\ ret[n].dados[k][2] = NomeExibido(op, Dados(op)[i], p)
        /\ p \in {2, 5} =>
             \A n \in 1..Len(ret) :
               \A k \in 3..Len(ret[n].dados) :
                 Profundidade(ret[n].dados[k][1]) = p =>
                   \E i \in 1..Len(Dados(op)) :
                     /\ Dados(op)[i][ColunaDoNivel(p)] = ValorDoNivel(p)
                     /\ ret[n].dados[k][2] = NomeExibido(op, Dados(op)[i], p)

\* C9: when no record of a loaded data set matches the resolved filter set,
\* the engine returns the empty list.
C9_SemRegistrosListaVazia ==
  op \in Motores /\ arq = [a \in Arquivos |-> "ok"] =>
    ((\A i \in 1..Len(Dados(op)) : ~CasaFiltros(op, Dados(op)[i])) => ret = <<>>)

\* The records of rs whose node at depth p is shown under the name nome.
ComNome(o, rs, p, nome) ==
  LET tem(r) == NomeExibido(o, r, p) = nome
  IN  SelectSeq(rs, tem)

\* The names of the nodes at depth p that the records rs fall under.
Nomes(o, rs, p) == {NomeExibido(o, rs[i], p) : i \in 1..Len(rs)}

\* C8: with nothing selected, every emitted table is the header, the NATIONAL
\* row and then, for every region that has records of the grouping value (the
\* region being the one derived from the record's state), the region's row
\* with the region's metric, immediately followed by one row per state of the
\* region with the state's metric; no row is deeper than a state row.
C8_NacionalRegioesEUfs ==
  op \in Motores /\ ProfundidadeSelecionada = 0 =>
    \A n \in 1..Len(ret) :
      LET linhas == ret[n].dados
          rs == DoGrupo(op, GrupoDaTabela(op, ret[n]))
          R == {k \in 3..Len(linhas) : Profundidade(linhas[k][1]) = 1}
          fim(k) == Min({j \in R : j > k} \cup {Len(linhas) + 1})
      IN  /\ linhas[1] = IF op = "oci" THEN CABECALHO_OCI ELSE CABECALHO
          /\ linhas[2][1] = "NACIONAL"
          /\ \A k \in 3..Len(linhas) : Profundidade(linhas[k][1]) \in {1, 2}
          /\ Profundidade(linhas[3][1]) = 1
          /\ {linhas[k][2] : k \in R} = Nomes(op, rs, 1)
          /\ Cardinality(R) = Cardinality(Nomes(op, rs, 1))
          /\ \A k \in R :
               LET da_regiao == ComNome(op, rs, 1, linhas[k][2])
                   U == (k + 1)..(fim(k) - 1)
               IN  /\ Celulas(linhas[k]) = Metrica(op, da_regiao)
                   /\ {linhas[j][2] : j \in U} = Nomes(op, da_regiao, 2)
                   /\ Cardinality(U) = Cardinality(Nomes(op, da_regiao, 2))
                   /\ \A j \in U :
                        Celulas(linhas[j]) = Metrica(op, ComNome(op, da_regiao, 2, linhas[j][2]))

\* What an engine's file path holds.
ArquivoDe(o) ==
  CASE o = "hab" -> arq["cnes_hab"]
    [] o = "srv" -> arq["cnes_srv"]
    [] o = "oci" -> arq["sia_oci"]
    [] o = "descricao" -> arq["ibge"]

\* The file is absent or lacks a required column.
FonteAusente(o) == ArquivoDe(o) \in {"ausente", "sem_coluna"}

\* The texts that stand in for a description that could not be made.
TextosDeAviso ==
  {ERRO_ARQUIVO[1], ERRO_CARREGAR[1], ERRO_COLUNA[1], DADOS_INCOMPLETOS[1], SEM_DESCRICAO[1]}

-----------------------------------------------------------------------------
(* The formatters, the normalizer and the region table over their inputs   *)

\* The values handed to the formatters: missing values, inf, texts, and
\* numbers given in hundredths (0; 0.50; 7; 999; 1000; 1234.5; 12345.67;
\* 999999.99; 1000000; 1234567).
ValoresFormatar ==
  {Nulo, NaN, Infinito,
   texto(<<"a", "b", "c">>), texto(<<"1", "2", "a">>), texto(<<"1", "2">>), texto(<<>>)}
    \cup {numero(c) : c \in {0, 50, 700, 99900, 100000, 123450, 1234567, 99999999,
                              100000000, 123456700}}

\* The pieces stored names are made of: a 3-digit and a 4-digit code, the
\* separators, punctuation, a word with an accent, a regional qualifier
\* followed by two tokens, a trailing number.
Pedacos ==
  {<<"1", "2", "3">>, <<"0", "0", "0", "1", " ">>, <<" ">>, <<"-">>, <<".">>,
   <<"S", "a~", "o">>, <<"R", "R", "A", "S", " ", "1", " ", "2">>, <<"5">>}

\* A name is made of at most this many pieces.
MaxPedacos == 4

RECURSIVE Juncoes(_)
Juncoes(k) ==
  IF k = 0 THEN {<<>>} ELSE Juncoes(k - 1) \cup {n \o p : n \in Juncoes(k - 1), p \in Pedacos}

\* The names handed to the normalizer and to get_descricao.
NomesBrutos == Juncoes(MaxPedacos)

\* The state names of the Region Membership Table.
EstadosDaTabela == {par[1] : par \in valores(UF_TO_REGIAO)}

\* The region names of the Region Membership Table.
RegioesDaTabela == {par[2] : par \in valores(UF_TO_REGIAO)}

Entradas ==
  ValoresFormatar \cup {texto(n) : n \in NomesBrutos \cup EstadosDaTabela \cup RegioesDaTabela}

\* The process has started under one of the locales; a value is at hand.
InitFmt ==
  /\ dados_selecao = DictVazio
  /\ op = "ocioso"
  /\ ret = Nulo
  /\ arq = [a \in Arquivos |-> "ok"]
  /\ base = {}
  /\ localidade \in Localidades
  /\ cache_srv = <<>>
  /\ cache_oci = <<>>
  /\ entrada \in Entradas
  /\ chamadas = SemChamadas

\* A call of formatar_populacao.
FormatarPopulacao ==
  /\ op = "ocioso"
  /\ entrada \in ValoresFormatar
  /\ op' = "formatar_populacao"
  /\ ret' = formatar_populacao_valor(entrada, localidade)
  /\ UNCHANGED <<dados_selecao, chamadas, entrada, arq, base, localidade, cache_srv, cache_oci>>

\* A call of formatar_valor_monetario.
FormatarValorMonetario ==
  /\ op = "ocioso"
  /\ entrada \in ValoresFormatar
  /\ op' = "formatar_valor_monetario"
  /\ ret' = formatar_valor_monetario_valor(entrada, localidade)
  /\ UNCHANGED <<dados_selecao, chamadas, entrada, arq, base, localidade, cache_srv, cache_oci>>

\* The text of a value that is not a number, None for a missing one.
nome_de(v) == IF isna(v) THEN Nulo ELSE str_de(v)

\* A call of padronizar_nome_geografico.
PadronizarNomeGeografico ==
  /\ op = "ocioso"
  /\ entrada[1] # "numero"
  /\ op' = "padronizar_nome_geografico"
  /\ ret' = padronizar_nome_geografico(nome_de(entrada))
  /\ UNCHANGED <<dados_selecao, chamadas, entrada, arq, base, localidade, cache_srv, cache_oci>>

\* A call of get_descricao.
GetDescricao ==
  /\ op = "ocioso"
  /\ entrada[1] # "numero"
  /\ op' = "get_descricao"
  /\ ret' = get_descricao(str_de(entrada))
  /\ UNCHANGED <<dados_selecao, chamadas, entrada, arq, base, localidade, cache_srv, cache_oci>>

\* The region inferred for a state name: UF_TO_REGIAO.get(uf, 'NA~O IDENTIFICADA').
RegiaoDaUf ==
  /\ op = "ocioso"
  /\ entrada[1] = "texto"
  /\ op' = "regiao_da_uf"
  /\ ret' = regiao_da_uf(entrada[2], NAO_IDENTIFICADA)
  /\ UNCHANGED <<dados_selecao, chamadas, entrada, arq, base, localidade, cache_srv, cache_oci>>

NextFmt ==
  \/ FormatarPopulacao
  \/ FormatarValorMonetario
  \/ PadronizarNomeGeografico
  \/ GetDescricao
  \/ RegiaoDaUf
  \/ Retorna

SpecFmt == InitFmt /\ [][NextFmt]_vars

\* C11: an exception raised while formatting a row's count or monetary value
\* (a value the formatter cannot coerce) comes out of the call as a failure;
\* it is never absorbed into a normal result such as a substituted string.
C11_ExcecaoDeFormatacaoPropaga ==
  /\ op = "formatar_populacao" /\ ~isna(entrada) /\ int_de(entrada) = <<>> => ret = EXCECAO
  /\ op = "formatar_entrada_monetario" /\ ~isna(entrada) /\ float_de(entrada) = <<>>
       => ret = EXCECAO

\* C17: formatting the count 1234567 yields "1.234.567" and formatting the
\* monetary value 1234.5 yields "1.234,50", under every locale the start-up
\* sequence can select.
C17_FormatoBrasileiro ==
  /\ op = "formatar_populacao" /\ entrada = numero(123456700)
       => ret = <<"1", ".", "2", "3", "4", ".", "5", "6", "7">>
  /\ op = "formatar_valor_monetario" /\ entrada = numero(123450)
       => ret = <<"1", ".", "2", "3", "4", ",", "5", "0">>

\* C12: padronizar_nome_geografico is idempotent: normalizing its result
\* again gives the same result, also where stripping one leading 3-4 digit
\* code, or replacing leading punctuation by a space, exposes another
\* leading 3-4 digit run followed by a separator.
C12_Idempotente ==
  op = "padronizar_nome_geografico" => padronizar_nome_geografico(ret) = ret

\* C13: for every state s of the Region Membership Table, the states that
\* the REGION filter obtains for the normalized name of the region of s
\* contain s, and s is in the state set of no other region.
C13_EstadoNaSuaRegiao ==
  op = "regiao_da_uf" /\ entrada[2] \in EstadosDaTabela
    => /\ entrada[2] \in ufs_da_regiao_padronizada(padronizar_nome_geografico(ret))
       /\ \A r \in RegioesDaTabela \ {ret} :
            entrada[2] \notin ufs_da_regiao_padronizada(padronizar_nome_geografico(r))

C13_Witness ==
  /\ op = "regiao_da_uf"
  /\ entrada = texto(<<"G", "O", "I", "A", "S">>)
  /\ ret = <<"C", "E", "N", "T", "R", "O", "-", "O", "E", "S", "T", "E">>
  /\ ufs_da_regiao_padronizada(<<"C", "E", "N", "T", "R", "O", " ", "O", "E", "S", "T", "E">>)
       = {<<"D", "I", "S", "T", "R", "I", "T", "O", " ", "F", "E", "D", "E", "R", "A", "L">>,
          <<"G", "O", "I", "A", "S">>, <<"M", "A", "T", "O", " ", "G", "R", "O", "S", "S", "O">>,
          <<"M", "A", "T", "O", " ", "G", "R", "O", "S", "S", "O", " ", "D", "O", " ", "S", "U", "L">>}

\* C14 as stated: the table has exactly 27 state keys and 5 distinct region
\* values, and every key and every region value is its own normal form.
C14_TabelaPadronizada ==
  op = "padronizar_nome_geografico" /\ entrada[1] = "texto"
    /\ entrada[2] \in EstadosDaTabela \cup RegioesDaTabela
    => /\ Cardinality(EstadosDaTabela) = 27
       /\ Len(UF_TO_REGIAO) = 27
       /\ Cardinality(RegioesDaTabela) = 5
       /\ ret = entrada[2]

\* C14, amended: the table has exactly 27 state keys and 5 distinct region
\* values; every key and every region value but 'CENTRO-OESTE' is its own
\* normal form, the normal form of 'CENTRO-OESTE' is 'CENTRO OESTE', and the
\* five normal forms are distinct.
C14_TabelaPadronizadaSalvoHifen ==
  op = "padronizar_nome_geografico" /\ entrada[1] = "texto"
    /\ entrada[2] \in EstadosDaTabela \cup RegioesDaTabela
    => /\ Cardinality(EstadosDaTabela) = 27
       /\ Len(UF_TO_REGIAO) = 27
       /\ Cardinality(RegioesDaTabela) = 5
       /\ Cardinality({padronizar_nome_geografico(r) : r \in RegioesDaTabela}) = 5
       /\ ret = IF entrada[2] = <<"C", "E", "N", "T", "R", "O", "-", "O", "E", "S", "T", "E">>
                THEN <<"C", "E", "N", "T", "R", "O", " ", "O", "E", "S", "T", "E">>
                ELSE entrada[2]

C14_Witness ==
  /\ op = "padronizar_nome_geografico"
  /\ entrada = texto(<<"C", "E", "N", "T", "R", "O", "-", "O", "E", "S", "T", "E">>)
  /\ ret = <<"C", "E", "N", "T", "R", "O", " ", "O", "E", "S", "T", "E">>

\* C18: get_descricao never returns an empty string: it returns a non-empty
\* title-cased label, or "-" when the input reduces to empty; in the branch
\* of the regional qualifiers ('RRAS', 'REGIAO DE SAUDE') the remainder after
\* the first three tokens is returned only when it is not empty.
C18_DescricaoNuncaVazia ==
  op = "get_descricao" => ret # Vazio /\ ret = title(ret)

-----------------------------------------------------------------------------
(* Concurrent calls: reading, processing and caching step by step          *)

Motores3 == {"hab", "srv", "oci"}

\* pd.read_parquet of a file holding the rows b: the frame as stored.
read_parquet(b) == [k \in 1..Cardinality(b) |-> REGISTROS[EmOrdem(b)[k]]]

\* The frame left as it was read.
processar_nada(m, df) == df

\* What the engine m does to the frame it read before the frame is used or
\* cached: the columns renamed and normalized, the region derived; for the
\* procedures only the PRINCIPAL rows, the measures made numeric.  The
\* processed row of a stored row is taken from LINHAS_HAB, LINHAS_SRV and
\* LINHAS_OCI, which hold linha_hab, linha_srv and linha_oci of every row.
processar(m, df) ==
  LET principal(r) == r.TP = PRINCIPAL
  IN  CASE m = "hab" -> [k \in DOMAIN df |-> LINHAS_HAB[indice(REGISTROS, df[k])]]
        [] m = "srv" -> [k \in DOMAIN df |-> LINHAS_SRV[indice(REGISTROS, df[k])]]
        [] m = "oci" -> [k \in DOMAIN SelectSeq(df, principal) |->
                           LINHAS_OCI[indice(REGISTROS, SelectSeq(df, principal)[k])]]

\* The cache slot of an engine; the qualifications engine has none.
cache_de(m) == IF m = "srv" THEN cache_srv ELSE IF m = "oci" THEN cache_oci ELSE <<>>

\* The files of the concurrent calls: no row, a PRINCIPAL row, a secondary
\* row, or both.
BasesConc == {b \in Bases : \A i \in b : REGISTROS[i].MUN = REGISTROS[7].MUN}

\* The process has started over files of which at most one is absent; no
\* thread is in a call.  The locale plays no part in loading.
InitConc ==
  /\ dados_selecao = DictVazio
  /\ op = "ocioso"
  /\ ret = Nulo
  /\ arq \in {f \in [Arquivos -> {"ok", "ausente"}] :
               f["ibge"] = "ok" /\ Cardinality({a \in Arquivos : f[a] # "ok"}) <= 1}
  /\ base \in BasesConc
  /\ localidade = "pt_BR.UTF-8"
  /\ cache_srv = <<>>
  /\ cache_oci = <<>>
  /\ entrada = Nulo
  /\ chamadas = SemChamadas

\* A thread enters gerar_tabela_cnes_hab, gerar_tabela_cnes_srv or
\* gerar_tabela_sia_oci.
Chama(t) ==
  /\ chamadas[t].pc = "ocioso"
  /\ \E m \in Motores3 :
       chamadas' = [chamadas EXCEPT ![t] = [@ EXCEPT !.pc = "chamado", !.motor = m]]
  /\ UNCHANGED <<dados_selecao, op, ret, arq, base, localidade, cache_srv, cache_oci, entrada>>

\* 'if _CACHE is not None: return _CACHE' of the loaders; gerar_tabela_cnes_hab
\* has no such test and goes on to read.
VerificaCache(t) ==
  /\ chamadas[t].pc = "chamado"
  /\ chamadas' = [chamadas EXCEPT ![t] =
       IF cache_de(@.motor) # <<>>
       THEN [@ EXCEPT !.pc = "carregado", !.df = cache_de(chamadas[t].motor)[1]]
       ELSE [@ EXCEPT !.pc = "sem_cache"]]
  /\ UNCHANGED <<dados_selecao, op, ret, arq, base, localidade, cache_srv, cache_oci, entrada>>

\* A read that, when it fails, sends the call back to its start.
LeComNovaTentativa(t) ==
  /\ chamadas[t].pc = "sem_cache"
  /\ chamadas' = [chamadas EXCEPT ![t] =
       IF arq[CASE @.motor = "hab" -> "cnes_hab" [] @.motor = "srv" -> "cnes_srv"
                [] OTHER -> "sia_oci"] = "ok"
       THEN [@ EXCEPT !.pc = "lido", !.df = read_parquet(base)]
       ELSE [@ EXCEPT !.pc = "chamado"]]
  /\ UNCHANGED <<dados_selecao, op, ret, arq, base, localidade, cache_srv, cache_oci, entrada>>

\* pd.read_parquet into the thread's own frame; a file that is not as
\* expected ends the call with no data.
Le(t) ==
  /\ chamadas[t].pc = "sem_cache"
  /\ chamadas' = [chamadas EXCEPT ![t] =
       IF arq[CASE @.motor = "hab" -> "cnes_hab" [] @.motor = "srv" -> "cnes_srv"
                [] OTHER -> "sia_oci"] = "ok"
       THEN [@ EXCEPT !.pc = "lido", !.df = read_parquet(base)]
       ELSE [@ EXCEPT !.pc = "falhou"]]
  /\ UNCHANGED <<dados_selecao, op, ret, arq, base, localidade, cache_srv, cache_oci, entrada>>

\* The processing of the thread's own frame.
Processa(t) ==
  /\ chamadas[t].pc = "lido"
  /\ chamadas' = [chamadas EXCEPT ![t] =
       [@ EXCEPT !.pc = "processado", !.df = processar(chamadas[t].motor, chamadas[t].df)]]
  /\ UNCHANGED <<dados_selecao, op, ret, arq, base, localidade, cache_srv, cache_oci, entrada>>

\* '_DF_CNES_SERV_CACHE = df' and '_DF_SIA_OCI_CACHE = df', the last statement
\* of a loader's try block.
Guarda(t) ==
  /\ chamadas[t].pc = "processado"
  /\ chamadas[t].motor # "hab"
  /\ cache_srv' = IF chamadas[t].motor = "srv" THEN <<chamadas[t].df>> ELSE cache_srv
  /\ cache_oci' = IF chamadas[t].motor = "oci" THEN <<chamadas[t].df>> ELSE cache_oci
  /\ chamadas' = [chamadas EXCEPT ![t] = [@ EXCEPT !.pc = "carregado"]]
  /\ UNCHANGED <<dados_selecao, op, ret, arq, base, localidade, entrada>>

\* The rest of the call: the table is built from the frame and returned.
Conclui(t) ==
  /\ \/ chamadas[t].pc \in {"carregado", "falhou"}
     \/ chamadas[t].pc = "processado" /\ chamadas[t].motor = "hab"
  /\ chamadas' = [chamadas EXCEPT ![t] =
       [pc |-> "ocioso", motor |-> "nenhum", df |-> <<>>,
        antes |-> IF @.pc = "falhou" THEN {} ELSE {@.motor}]]
  /\ UNCHANGED <<dados_selecao, op, ret, arq, base, localidade, cache_srv, cache_oci, entrada>>

NextConc ==
  \E t \in Threads :
    Chama(t) \/ VerificaCache(t) \/ Le(t) \/ Processa(t) \/ Guarda(t) \/ Conclui(t)

SpecConc == InitConc /\ [][NextConc]_vars

\* C15: under any interleaving of concurrent loader calls on an unchanged
\* file, a cache slot holds nothing or the fully processed dataset of the
\* file, never a partially processed one, so any two datasets ever stored in
\* a slot are the same.
C15_CacheVazioOuCompleto ==
  /\ cache_srv # <<>> => cache_srv = <<carregar_srv(base)>>
  /\ cache_oci # <<>> => cache_oci = <<carregar_oci(base)>>

\* Two threads raced: one has stored its frame, the other is about to store
\* the frame it read and processed on its own.
C15_Witness ==
  /\ base # {}
  /\ cache_srv # <<>>
  /\ \E t, u \in Threads :
       /\ chamadas[t].motor = "srv" /\ chamadas[t].pc = "carregado"
       /\ chamadas[u].motor = "srv" /\ chamadas[u].pc = "processado"

\* C16: for each of the three backing datasets, once a call has loaded and
\* processed the dataset, no later call of the process reads the dataset
\* from storage again.
C16_SemNovaLeitura ==
  \A t \in Threads : chamadas[t].motor \in chamadas[t].antes => chamadas[t].pc # "lido"

\* The normalized name of the node of record r at depth p.
NomeNormalizado(o, r, p) ==
  CASE p = 1 -> IF o = "hab"
                THEN padronizar_nome_geografico(regiao_da_uf(r.NO_UF, NAO_IDENTIFICADA))
                ELSE r.NO_REGIAO
    [] p = 2 -> r.NO_UF
    [] p = 3 -> r.NO_MACRO_REG_SAUDE
    [] p = 4 -> r.NO_REGIAO_SAUDE
    [] p = 5 -> r.NO_MUNICIPIO
    [] p = 6 -> r.DS_TIPO_UNIDADE
    [] p = 7 -> r.NO_FANTASIA

\* The normalized names that row k of table t shows: those of the table's
\* records whose name at the row's depth is displayed as the row's description.
NomesDoNo(o, t, k) ==
  LET rs == DoGrupo(o, GrupoDaTabela(o, t))
      p == Profundidade(t.dados[k][1])
  IN  {NomeNormalizado(o, rs[i], p) :
         i \in {n \in 1..Len(rs) : NomeExibido(o, rs[n], p) = t.dados[k][2]}}

\* Rows j < k of a table are siblings: at the same depth, with no row of a
\* smaller depth between them.
Irmaos(linhas, j, k) ==
  /\ j < k
  /\ Profundidade(linhas[j][1]) = Profundidade(linhas[k][1])
  /\ \A i \in j..k : Profundidade(linhas[i][1]) >= Profundidade(linhas[j][1])

\* C19: in every emitted table of every engine, the sibling rows under one
\* parent appear in ascending lexical order of their normalized names.
C19_IrmaosEmOrdem ==
  op \in Motores =>
    \A n \in 1..Len(ret) :
      \A j, k \in 3..Len(ret[n].dados) :
        Irmaos(ret[n].dados, j, k) =>
          \E a \in NomesDoNo(op, ret[n], j), b \in NomesDoNo(op, ret[n], k) :
            a = b \/ menor(a, b)

-----------------------------------------------------------------------------
(* Files with missing values                                               *)

\* The process has started over files in which one row lacks a value.
InitComLacuna ==
  /\ dados_selecao = DictVazio
  /\ op = "ocioso"
  /\ ret = Nulo
  /\ arq = [a \in Arquivos |-> "ok"]
  /\ base \in BasesComLacuna
  /\ localidade \in Localidades
  /\ cache_srv = <<>>
  /\ cache_oci = <<>>
  /\ entrada = Nulo
  /\ chamadas = SemChamadas

SpecComLacuna == InitComLacuna /\ [][Next]_vars

\* The sentinel of a missing value after normalization.
NAN == <<"N", "A", "N">>

\* C20: in every engine and at every level, a node whose grouping value is
\* empty or the sentinel 'NAN' is never emitted as a row of a table.
C20_SemLinhaDeSentinela ==
  op \in Motores =>
    \A n \in 1..Len(ret) :
      \A k \in 3..Len(ret[n].dados) : NomesDoNo(op, ret[n], k) \cap {Vazio, NAN} = {}

-----------------------------------------------------------------------------
(* Claims on the shape of the results                                      *)

\* The header row of an engine's tables.
CabecalhoDe(o) == IF o = "oci" THEN CABECALHO_OCI ELSE CABECALHO

\* C21: every table in the result of an engine starts with the fixed header
\* row, has the NATIONAL row as its second row and holds at least one further
\* row; a table of header and NATIONAL row alone is not in the result.
C21_TabelaComLinhas ==
  op \in Motores =>
    \A n \in 1..Len(ret) :
      /\ Len(ret[n].dados) > 2
      /\ ret[n].dados[1] = CabecalhoDe(op)
      /\ ret[n].dados[2][1] = "NACIONAL"
      /\ \A k \in 3..Len(ret[n].dados) : ret[n].dados[k][1] # "NACIONAL"

\* An engine has emitted a table for one grouping value and none for another
\* grouping value the data set holds.
C21_Witness ==
  /\ op \in Motores
  /\ ret # <<>>
  /\ \E i \in 1..Len(Dados(op)) :
       \A n \in 1..Len(ret) : GrupoDaTabela(op, ret[n]) # Dados(op)[i][ColunaGrupo(op)]

-----------------------------------------------------------------------------
(* A file that becomes available while the process runs                    *)

\* The missing file is put in place.
Repoe ==
  /\ \E a \in Arquivos : arq[a] # "ok"
  /\ arq' = [a \in Arquivos |-> "ok"]
  /\ UNCHANGED <<dados_selecao, op, ret, base, localidade, cache_srv, cache_oci, entrada,
                 chamadas>>

NextRecarga == NextConc \/ Repoe

SpecRecarga == InitConc /\ [][NextRecarga]_vars

-----------------------------------------------------------------------------
(* Claims on the demographic narrative                                     *)

\* The level a selection resolves to.
NivelDe(d) == mapear_selecao_geral(d).NIVEL_AGREGACAO

\* Two selections carry the same state and the same municipality.
MesmoUfEMunicipio(d, e) ==
  /\ get_ou(d, "uf", Ausente) = get_ou(e, "uf", Ausente)
  /\ get_ou(d, "municipio", Ausente) = get_ou(e, "municipio", Ausente)

\* The narrative of the call is the narrative of every selection at
\* MUNICIPALITY level that carries the same state and municipality.
NarrativaSoDeUfEMunicipio ==
  \A x \in Escolhas :
    (NivelDe(DeEscolha(x)) = "MUNICIPIO" /\ MesmoUfEMunicipio(DeEscolha(x), dados_selecao)) =>
      gerar_descricao_demografica(DeEscolha(x), arq["ibge"], base, localidade) = ret

SEM_DADOS == "Nao foram encontrados dados demograficos para a selecao"

\* C24: at MUNICIPALITY level the narrative depends only on the state and
\* municipality of the selection: two selections that agree on uf and
\* municipio and differ in regiao, macro or regiaoSaude give the same narrative.
C24_SoUfEMunicipio ==
  (op = "descricao" /\ NivelDe(dados_selecao) = "MUNICIPIO") => NarrativaSoDeUfEMunicipio

\* C24, amended: the same, for a selection that some population row matches.
C24_SoUfEMunicipioComDados ==
  (op = "descricao" /\ NivelDe(dados_selecao) = "MUNICIPIO" /\ ret[1] # SEM_DADOS) =>
    NarrativaSoDeUfEMunicipio

\* A narrative of a municipality was made from a selection that also carries
\* a region, a macroregion or a health region.
C24_Witness ==
  /\ op = "descricao"
  /\ NivelDe(dados_selecao) = "MUNICIPIO"
  /\ ret[1] = "O municipio de"
  /\ DOMAIN dados_selecao \cap {"regiao", "macro", "regiaoSaude"} # {}

-----------------------------------------------------------------------------
(* Claims on the procedures engine                                         *)

\* The stored rows of the file that are PRINCIPAL and of subgroup g.
PrincipaisDoSubgrupo(g) ==
  {i \in base : REGISTROS[i].TP = PRINCIPAL /\ padronizar_nome_geografico(REGISTROS[i].GRUPO) = g}

\* The sum of a stored measure over the rows P, a measure that is no number
\* counting as zero.
SomaBruta(P, campo) ==
  soma([k \in 1..Cardinality(P) |->
          IF REGISTROS[EmOrdem(P)[k]][campo] = <<>> THEN 0
          ELSE REGISTROS[EmOrdem(P)[k]][campo][1]])

\* C25: in the procedures engine no row that is not PRINCIPAL contributes to
\* an emitted quantity or value, the NATIONAL row included: the result is the
\* result over the PRINCIPAL rows alone, and the NATIONAL row sums them; a
\* measure that is not numeric counts as zero and its row is kept.
C25_SoPrincipais ==
  op = "oci" =>
    /\ ret = gerar_tabela_sia_oci(dados_selecao,
               IF ArquivoDe("oci") = "ok"
               THEN <<[k \in 1..Cardinality({i \in base : REGISTROS[i].TP = PRINCIPAL}) |->
                         LINHAS_OCI[EmOrdem({i \in base : REGISTROS[i].TP = PRINCIPAL})[k]]]>>
               ELSE <<>>,
               localidade)
    /\ \A n \in 1..Len(ret) :
         Celulas(ret[n].dados[2]) =
           <<formatar_populacao(
               SomaBruta(PrincipaisDoSubgrupo(ret[n].subgrupo_procedimento), "Q"), localidade),
             formatar_valor_monetario(
               SomaBruta(PrincipaisDoSubgrupo(ret[n].subgrupo_procedimento), "V"), localidade)>>

\* The engine has emitted a table from a file that holds a row that is not
\* PRINCIPAL of the table's subgroup, or whose row of the subgroup has no
\* numeric quantity.
C25_Witness ==
  /\ op = "oci"
  /\ ret # <<>>
  /\ \E i \in base :
       /\ padronizar_nome_geografico(REGISTROS[i].GRUPO) = ret[1].subgrupo_procedimento
       /\ REGISTROS[i].TP # PRINCIPAL \/ REGISTROS[i].Q = <<>>

\* The rows of the filtered frame of the procedures engine that are of the
\* subgroup g.
FiltradosDoSubgrupo(g) ==
  onde(filtrar(Dados("oci"), mapear_selecao_geral_2(dados_selecao).FILTROS, COLUNAS_OCI),
       "NO_SUBGRUPO_PROCED", g)

\* Row j of a table is a STATE row named nome in the block of the REGION row k.
UfSobRegiao(linhas, k, j, nome) ==
  /\ j > k
  /\ Profundidade(linhas[j][1]) = 2
  /\ linhas[j][2] = nome
  /\ \A i \in (k + 1)..j : Profundidade(linhas[i][1]) # 1

\* C26: in the procedures engine, for a selection below NATIONAL without a
\* region filter, every REGION row is followed, before the next REGION row or
\* the end of the table, by the STATE rows of all states of that region in the
\* filtered subset.
C26_RegiaoComSuasUfs ==
  (/\ op = "oci"
   /\ mapear_selecao_geral_2(dados_selecao).NIVEL_AGREGACAO # "NACIONAL"
   /\ "NO_REGIAO" \notin DOMAIN mapear_selecao_geral_2(dados_selecao).FILTROS) =>
    \A n \in 1..Len(ret) :
      \A k \in 3..Len(ret[n].dados) :
        Profundidade(ret[n].dados[k][1]) = 1 =>
          \A i \in 1..Len(FiltradosDoSubgrupo(ret[n].subgrupo_procedimento)) :
            get_descricao(FiltradosDoSubgrupo(ret[n].subgrupo_procedimento)[i].NO_REGIAO)
                = ret[n].dados[k][2] =>
              \E j \in 3..Len(ret[n].dados) :
                UfSobRegiao(ret[n].dados, k, j,
                  get_descricao(FiltradosDoSubgrupo(ret[n].subgrupo_procedimento)[i].NO_UF))

-----------------------------------------------------------------------------
(* Claims on the qualifications engine                                     *)

\* The count a row of a qualifications table shows.
ContagemDaLinha(linha) ==
  LET digito(c) == c \in Digitos
  IN  valor_dos_digitos(SelectSeq(linha[3], digito))

\* The labels of the rows of the ancestry chain.
ROTULOS_DA_CADEIA == {"REGIA~O", "UF", "MACRORREGIA~O", "REGIA~O DE SAUDE", "MUNICIPIO"}

\* C27: in every table of the qualifications engine for a selection at
\* MACROREGION level or deeper, the counts along the ancestry chain do not
\* increase from top to bottom: REGION >= STATE >= MACROREGION >=
\* HEALTH REGION >= MUNICIPALITY.
C27_CadeiaNaoCrescente ==
  (op = "hab" /\ NivelDe(dados_selecao) \in {"MACRORREGIAO", "REGIAO_SAUDE", "MUNICIPIO", "CNES"}) =>
    \A n \in 1..Len(ret) :
      \A j, k \in 3..Len(ret[n].dados) :
        (/\ j < k
         /\ ret[n].dados[j][1] \in ROTULOS_DA_CADEIA
         /\ ret[n].dados[k][1] \in ROTULOS_DA_CADEIA) =>
          ContagemDaLinha(ret[n].dados[j]) >= ContagemDaLinha(ret[n].dados[k])

-----------------------------------------------------------------------------
(* Claims on all engines                                                   *)

\* C28: for every selection whose resolved filter set matches at least one
\* record of the data set, each engine returns a list with at least one
\* table, at every selectable level, facility type and facility included.
C28_ComRegistrosHaTabela ==
  op \in Motores =>
    ((\E i \in 1..Len(Dados(op)) : CasaFiltros(op, Dados(op)[i])) => ret # <<>>)

\* The sum of the counts the rows at the positions S of a table show.
SomaDasLinhas(linhas, S) ==
  soma([k \in 1..Cardinality(S) |-> ContagemDaLinha(linhas[EmOrdem(S)[k]])])

\* The STATE rows listed under the REGION row k.
UfsDaLinha(linhas, k) ==
  {j \in (k + 1)..Len(linhas) :
     /\ Profundidade(linhas[j][1]) = 2
     /\ \A i \in (k + 1)..j : Profundidade(linhas[i][1]) # 1}

\* C29: in every table of the qualifications engine at NATIONAL selection, the
\* counts of the REGION rows sum to the count of the NATIONAL row, and the
\* count of each REGION row is the sum of the STATE rows listed under it.
C29_SomasDoNacional ==
  (op = "hab" /\ NivelDe(dados_selecao) = "NACIONAL") =>
    \A n \in 1..Len(ret) :
      /\ SomaDasLinhas(ret[n].dados,
                       {k \in 3..Len(ret[n].dados) : Profundidade(ret[n].dados[k][1]) = 1})
           = ContagemDaLinha(ret[n].dados[2])
      /\ \A k \in 3..Len(ret[n].dados) :
           Profundidade(ret[n].dados[k][1]) = 1 =>
             ContagemDaLinha(ret[n].dados[k]) = SomaDasLinhas(ret[n].dados, UfsDaLinha(ret[n].dados, k))

-----------------------------------------------------------------------------
(* Claims on the values the resolver stores                                *)

\* C30: every value stored in FILTROS is a non-empty string: a raw value that
\* is not empty but normalizes to the empty string adds no entry and does not
\* change the level.
C30_FiltrosNaoVazios ==
  op \in {"mapear", "mapear_2"} =>
    \A c \in DOMAIN ret.FILTROS : ret.FILTROS[c] # Vazio

\* C30, amended: a stored value is empty only as the normalized form of a raw
\* value that is not empty, and such a raw value does add its entry, holding
\* the empty string, and its level counts as selected.
C30_VazioSoDeValorBruto ==
  op \in {"mapear", "mapear_2"} =>
    \A i \in 1..Len(HierarquiaDe(op)) :
      LET c == HierarquiaDe(op)[i][1]
          col == HierarquiaDe(op)[i][3]
      IN  /\ (col \in DOMAIN ret.FILTROS /\ ret.FILTROS[col] = Vazio) =>
               /\ c # "cnes"
               /\ c \in DOMAIN dados_selecao
               /\ dados_selecao[c] # Vazio
               /\ padronizar_nome_geografico(dados_selecao[c]) = Vazio
          /\ (/\ c \in DOMAIN dados_selecao
              /\ dados_selecao[c] # Vazio
              /\ padronizar_nome_geografico(dados_selecao[c]) = Vazio) =>
               /\ col \in DOMAIN ret.FILTROS
               /\ c # "cnes" => ret.FILTROS[col] = Vazio
               /\ ret.NIVEL_AGREGACAO \in {HierarquiaDe(op)[j][2] : j \in i..Len(HierarquiaDe(op))}

\* A municipality of punctuation alone was sent with nothing more specific:
\* the municipality level is selected with an empty filter value.
C30_Witness ==
  /\ op = "mapear"
  /\ "municipio" \in DOMAIN dados_selecao
  /\ dados_selecao["municipio"] = <<"-">>
  /\ ret.NIVEL_AGREGACAO = "MUNICIPIO"
  /\ ret.FILTROS["NO_MUNICIPIO"] = Vazio

====
